---- MODULE Spec2Model ----
(***************************************************************************)
(* Model of the Aldersbach dashboard (src/script.js, class                 *)
(* AlderbachDashboard): the XML-to-transaction parser, the transaction     *)
(* store with its filtered view, and the asynchronous load.                *)
(*                                                                         *)
(* Representation.  A JavaScript string is a sequence of one-character     *)
(* strings, so that trim, toLowerCase, includes, split, the regular        *)
(* expressions and parseFloat are computed character by character.         *)
(* A JavaScript number is an integer count of tenths (Scale), which is     *)
(* exact for the quantities of the documents below; a florin value is an   *)
(* integer count of 1/(240*Scale) florin, so that the seven rates are      *)
(* exact.  NaN, null and the invalid date are records of their own.        *)
(***************************************************************************)
EXTENDS Integers, Sequences, FiniteSets, TLC

\* ------------------------------------------------------------------------
\* Strings
\* ------------------------------------------------------------------------

Lower == << "a","b","c","d","e","f","g","h","i","j","k","l","m",
            "n","o","p","q","r","s","t","u","v","w","x","y","z" >>

Upper == << "A","B","C","D","E","F","G","H","I","J","K","L","M",
            "N","O","P","Q","R","S","T","U","V","W","X","Y","Z" >>

Digits == << "0","1","2","3","4","5","6","7","8","9" >>

UpperSet == {Upper[i] : i \in 1..Len(Upper)}

LowerSet == {Lower[i] : i \in 1..Len(Lower)}

DigitSet == {Digits[i] : i \in 1..Len(Digits)}

IsUpper(c) == c \in UpperSet

IsLower(c) == c \in LowerSet

IsDigit(c) == c \in DigitSet

DigitValOf == [c \in DigitSet |-> (CHOOSE i \in 1..Len(Digits) : Digits[i] = c) - 1]

DigitVal(c) == DigitValOf[c]

IsSpace(c) == c = " "

LowerOf == [c \in UpperSet |-> Lower[CHOOSE i \in 1..Len(Upper) : Upper[i] = c]]

\* String.prototype.toLowerCase on one character
toLowerChar(c) ==
    IF IsUpper(c) THEN LowerOf[c]
    ELSE IF c = "Ö" THEN "ö"
    ELSE IF c = "Ã" THEN "ã"
    ELSE c

toLowerCase(s) == [i \in 1..Len(s) |-> toLowerChar(s[i])]

\* String.prototype.trim
RECURSIVE trimStart(_)
trimStart(s) ==
    IF s # <<>> /\ IsSpace(Head(s)) THEN trimStart(Tail(s)) ELSE s

RECURSIVE trimEnd(_)
trimEnd(s) ==
    IF s # <<>> /\ IsSpace(s[Len(s)]) THEN trimEnd(SubSeq(s, 1, Len(s) - 1)) ELSE s

trim(s) == trimEnd(trimStart(s))

\* String.prototype.includes
includes(s, sub) ==
    \E i \in 1..(Len(s) - Len(sub) + 1) : SubSeq(s, i, i + Len(sub) - 1) = sub

\* String.prototype.substring(from, to) with 0-based indices
substring(s, from, to) == SubSeq(s, from + 1, IF to > Len(s) THEN Len(s) ELSE to)

\* Array.prototype.includes
ArrayIncludes(arr, x) == \E i \in 1..Len(arr) : arr[i] = x

\* Collation rank of a character for String.prototype.localeCompare: the
\* punctuation before the digits before the letters, a letter's two cases
\* sharing a rank.
CollationOrder ==
    << " ", "-", ".", ":", "#", "(", "0","1","2","3","4","5","6","7","8","9" >>
        \o Lower \o << "ö" >>

CollationSet == {CollationOrder[i] : i \in 1..Len(CollationOrder)}

RankOf == [c \in CollationSet |-> CHOOSE i \in 1..Len(CollationOrder) : CollationOrder[i] = c]

Rank(c) ==
    LET l == toLowerChar(c)
    IN  IF l \in CollationSet THEN RankOf[l] ELSE Len(CollationOrder) + 1

\* lexicographic comparison of two rank sequences: -1, 0 or 1
RECURSIVE CompareRanks(_, _)
CompareRanks(a, b) ==
    IF a = <<>> /\ b = <<>> THEN 0
    ELSE IF a = <<>> THEN -1
    ELSE IF b = <<>> THEN 1
    ELSE IF Rank(Head(a)) < Rank(Head(b)) THEN -1
    ELSE IF Rank(Head(a)) > Rank(Head(b)) THEN 1
    ELSE CompareRanks(Tail(a), Tail(b))

\* tertiary difference: at the first position where the cases differ the
\* lower-case letter sorts first
RECURSIVE CompareCase(_, _)
CompareCase(a, b) ==
    IF a = <<>> \/ b = <<>> THEN 0
    ELSE IF Head(a) = Head(b) THEN CompareCase(Tail(a), Tail(b))
    ELSE IF IsUpper(Head(b)) THEN -1
    ELSE 1

\* String.prototype.localeCompare
localeCompare(a, b) ==
    IF a = b THEN 0
    ELSE LET primary == CompareRanks(a, b)
         IN  IF primary # 0 THEN primary ELSE CompareCase(a, b)

\* ------------------------------------------------------------------------
\* Dates: the Date object of the runtime
\* ------------------------------------------------------------------------

\* The UTC offsets, in hours, of the zones the page may run in
\* (local time = UTC + offset).
TZOffsets == {-5, 0, 1}

IsLeap(y) == (y % 4 = 0 /\ y % 100 # 0) \/ y % 400 = 0

DaysInMonth(y, m) ==
    IF m = 2 THEN (IF IsLeap(y) THEN 29 ELSE 28)
    ELSE IF m \in {4, 6, 9, 11} THEN 30
    ELSE 31

\* a sequence of decimal digits as a number
RECURSIVE DigitsToNat(_)
DigitsToNat(s) ==
    IF s = <<>> THEN 0
    ELSE 10 * DigitsToNat(SubSeq(s, 1, Len(s) - 1)) + DigitVal(s[Len(s)])

AllDigits(s) == \A i \in 1..Len(s) : IsDigit(s[i])

\* a number as exactly `width` decimal digits
RECURSIVE PadDigits(_, _)
PadDigits(n, width) ==
    IF width = 0 THEN <<>>
    ELSE Append(PadDigits(n \div 10, width - 1), Digits[(n % 10) + 1])

InvalidDate == [valid |-> FALSE, y |-> 0, m |-> 0, d |-> 0, h |-> 0, mi |-> 0]

\* a time value moved by delta hours, |delta| < 24
ShiftHours(t, delta) ==
    LET h2 == t.h + delta
    IN  IF h2 < 0 THEN
            IF t.d > 1 THEN [t EXCEPT !.d = t.d - 1, !.h = h2 + 24]
            ELSE IF t.m > 1
                 THEN [t EXCEPT !.m = t.m - 1, !.d = DaysInMonth(t.y, t.m - 1), !.h = h2 + 24]
                 ELSE [t EXCEPT !.y = t.y - 1, !.m = 12, !.d = 31, !.h = h2 + 24]
        ELSE IF h2 >= 24 THEN
            IF t.d < DaysInMonth(t.y, t.m) THEN [t EXCEPT !.d = t.d + 1, !.h = h2 - 24]
            ELSE IF t.m < 12
                 THEN [t EXCEPT !.m = t.m + 1, !.d = 1, !.h = h2 - 24]
                 ELSE [t EXCEPT !.y = t.y + 1, !.m = 1, !.d = 1, !.h = h2 - 24]
        ELSE [t EXCEPT !.h = h2]

\* /^\d{4}-\d{2}-\d{2}$/.test(s)
IsISODate(s) ==
    /\ Len(s) = 10
    /\ AllDigits(SubSeq(s, 1, 4)) /\ s[5] = "-"
    /\ AllDigits(SubSeq(s, 6, 7)) /\ s[8] = "-"
    /\ AllDigits(SubSeq(s, 9, 10))

\* the "THH:mm" tail of the date-time form
IsTimeTail(s) ==
    /\ Len(s) = 6
    /\ s[1] = "T" /\ AllDigits(SubSeq(s, 2, 3)) /\ s[4] = ":"
    /\ AllDigits(SubSeq(s, 5, 6))

\* the time value of the fields t read from a date time string: invalid
\* when a field is out of its range, UTC for the date-only form, local
\* time for the date-time form
timeValue(t, dateOnly, tz) ==
    IF t.m \in 1..12 /\ t.d \in 1..DaysInMonth(t.y, t.m) /\ t.h \in 0..23 /\ t.mi \in 0..59
    THEN (IF dateOnly THEN t ELSE ShiftHours(t, 0 - tz))
    ELSE InvalidDate

\* new Date(s): the time value in UTC fields.  The two forms of the date
\* time string format are recognised: the date-only form YYYY-MM-DD is
\* taken as UTC, the date-time form YYYY-MM-DDTHH:mm (no offset) as local
\* time; any other text is an invalid date.
DateParse(s, tz) ==
    IF Len(s) >= 10 /\ IsISODate(SubSeq(s, 1, 10))
       /\ (Len(s) = 10 \/ IsTimeTail(SubSeq(s, 11, Len(s))))
    THEN timeValue([valid |-> TRUE,
                    y  |-> DigitsToNat(SubSeq(s, 1, 4)),
                    m  |-> DigitsToNat(SubSeq(s, 6, 7)),
                    d  |-> DigitsToNat(SubSeq(s, 9, 10)),
                    h  |-> IF Len(s) = 10 THEN 0 ELSE DigitsToNat(SubSeq(s, 12, 13)),
                    mi |-> IF Len(s) = 10 THEN 0 ELSE DigitsToNat(SubSeq(s, 15, 16))],
                   Len(s) = 10, tz)
    ELSE InvalidDate

\* Date.prototype.getFullYear: the year in local time
getFullYear(t, tz) == ShiftHours(t, tz).y

\* date.toISOString().split('T')[0]: the UTC date as YYYY-MM-DD
toISODate(t) ==
    PadDigits(t.y, 4) \o <<"-">> \o PadDigits(t.m, 2) \o <<"-">> \o PadDigits(t.d, 2)

MinYear == 1200

MaxYear == 1800

\* the fallback of validateAndParseDate on the Date object
\* (script.js 348-364)
validateDateObject(date, tz) ==
    IF date.valid /\ getFullYear(date, tz) >= MinYear /\ getFullYear(date, tz) <= MaxYear
    THEN toISODate(date)
    ELSE <<>>

\* validateAndParseDate (script.js 329-371); <<>> stands for null
validateAndParseDate(dateString, tz) ==
    IF dateString = <<>> THEN <<>>
    ELSE IF IsISODate(dateString)
            /\ DigitsToNat(substring(dateString, 0, 4)) >= MinYear
            /\ DigitsToNat(substring(dateString, 0, 4)) <= MaxYear
         THEN dateString
    ELSE validateDateObject(DateParse(dateString, tz), tz)

\* ------------------------------------------------------------------------
\* Numbers and currencies
\* ------------------------------------------------------------------------

\* a number n is held as n * Scale
Scale == Len(Digits)

NaN == [nan |-> TRUE, v |-> 0]

\* the longest prefix of s made of decimal digits
RECURSIVE DigitPrefix(_)
DigitPrefix(s) ==
    IF s # <<>> /\ IsDigit(Head(s)) THEN <<Head(s)>> \o DigitPrefix(Tail(s)) ELSE <<>>

\* the digits of the fraction that starts the text rest
fractionDigits(rest) ==
    IF rest # <<>> /\ Head(rest) = "." THEN DigitPrefix(Tail(rest)) ELSE <<>>

\* the number with integer digits int and fraction digits frac; of a
\* fraction the first digit is kept (the documents carry at most one)
numberOf(negative, int, frac) ==
    IF int = <<>> /\ frac = <<>> THEN NaN
    ELSE [nan |-> FALSE,
          v   |-> (IF negative THEN -1 ELSE 1)
                     * (DigitsToNat(int) * Scale
                          + (IF frac = <<>> THEN 0 ELSE DigitVal(frac[1])))]

\* the number that the text body begins with, int being its integer digits
unsignedPrefix(negative, body, int) ==
    numberOf(negative, int, fractionDigits(SubSeq(body, Len(int) + 1, Len(body))))

\* the number that the text t begins with
signedPrefix(t) ==
    IF t # <<>> /\ Head(t) \in {"-", "+"}
    THEN unsignedPrefix(Head(t) = "-", Tail(t), DigitPrefix(Tail(t)))
    ELSE unsignedPrefix(FALSE, t, DigitPrefix(t))

\* parseFloat(s): optional sign, digits, optional fraction; the longest
\* numeric prefix is converted, and text without one is NaN
parseFloat(s) == signedPrefix(trimStart(s))

MaxAmount == 100000

null == [isNull |-> TRUE, v |-> 0]

\* validateNumber as it would be without the upper bound
validateNumberUnbounded(numValue) ==
    IF numValue.nan \/ numValue.v < 0
    THEN [isNull |-> TRUE, v |-> 0]
    ELSE [isNull |-> FALSE, v |-> numValue.v]

\* the checks of validateNumericValue on the parsed number
\* (script.js 380-390)
validateNumber(numValue) ==
    IF numValue.nan \/ numValue.v < 0 \/ numValue.v > MaxAmount * Scale
    THEN null
    ELSE [isNull |-> FALSE, v |-> numValue.v]

\* validateNumericValue (script.js 373-393)
validateNumericValue(valueString) ==
    IF valueString = <<>> \/ trim(valueString) = <<>> THEN null
    ELSE validateNumber(parseFloat(trim(valueString)))

validCurrencies == << <<"f">>, <<"s">>, <<"d">>, <<"g","r">>, <<"t">>, <<"l">>, <<"p">> >>

isValidCurrency(currency) == ArrayIncludes(validCurrencies, currency)

\* florin values are counted in units of 1/(FlorinUnit * Scale) florin
FlorinUnit == 240

\* names that every object literal inherits from Object.prototype; the
\* value of each is a function
ObjectPrototype ==
    { <<"c","o","n","s","t","r","u","c","t","o","r">>,
      <<"t","o","S","t","r","i","n","g">>,
      <<"v","a","l","u","e","O","f">> }

\* the value undefined of a property lookup, and a value that is a function
undefined == 0
inherited == -1

\* rates[currency]: the rate of a currency as a multiple of 1/FlorinUnit,
\* undefined for a name the table lacks, a function for a name the table
\* inherits (script.js 402-412)
rates(currency) ==
    CASE currency = <<"f">>     -> FlorinUnit
      [] currency = <<"s">>     -> FlorinUnit \div 30
      [] currency = <<"d">>     -> FlorinUnit \div 240
      [] currency = <<"g","r">> -> FlorinUnit \div 20
      [] currency = <<"t">>     -> FlorinUnit \div 8
      [] currency = <<"l">>     -> FlorinUnit \div 4
      [] currency = <<"p">>     -> FlorinUnit \div 240
      [] currency \in ObjectPrototype -> inherited
      [] OTHER                  -> undefined

\* amount * rate: the product of two numbers is a number, the product of a
\* number and a function is NaN
times(amount, rate) ==
    IF rate = inherited THEN NaN ELSE [nan |-> FALSE, v |-> amount * rate]

\* convertToFlorin (script.js 400-419)
convertToFlorin(amount, currency) ==
    IF rates(currency) = undefined THEN [nan |-> FALSE, v |-> 0]
    ELSE times(amount, rates(currency))

\* florin values of the export converters are counted in units of
\* 1/(ExportUnit * Scale) florin
ExportUnit == 1000000

\* conversionRates[currency] of ExportManager and rates[currency] of
\* PDFExporter, the same table in both, as a multiple of 1/ExportUnit
\* (part_001 160-168, pdfExporter.js 501-509)
conversionRates(currency) ==
    CASE currency = <<"f">>     -> 1000000
      [] currency = <<"s">>     -> 50000
      [] currency = <<"d">>     -> 4167
      [] currency = <<"g","r">> -> 62500
      [] currency = <<"t">>     -> 500000
      [] currency = <<"l">>     -> 1000000
      [] currency = <<"p">>     -> 4167
      [] currency \in ObjectPrototype -> inherited
      [] OTHER                  -> undefined

\* conversionRates[currency] || 1
rateOrOne(currency) ==
    IF conversionRates(currency) = undefined THEN ExportUnit
    ELSE conversionRates(currency)

\* PDFExporter.convertToFlorins (pdfExporter.js 500-512)
PDFExporter_convertToFlorins(amount, currency) ==
    times(amount, rateOrOne(currency))

\* ExportManager.convertToFlorins (part_001 157-171)
ExportManager_convertToFlorins(amount, currency) ==
    IF amount = 0 \/ currency = <<>> THEN [nan |-> FALSE, v |-> 0]
    ELSE times(amount, rateOrOne(currency))

\* ------------------------------------------------------------------------
\* Parsing
\* ------------------------------------------------------------------------

\* A document is the sequence of its Transaction elements, as
\* querySelectorAll('bk\\:Transaction, Transaction') yields them.  An
\* element is [entry, when, money]: the text content of its entry and when
\* children (empty when the child is absent) and its Money elements, each
\* with the text of its quantity child and the rdf:resource of its unit.

\* getTextContent(element, tagName): the trimmed text of the child
getTextContent(text) == trim(text)

\* unitResource.split('#').pop(): the text after the last '#'
RECURSIVE splitPop(_)
splitPop(s) ==
    IF \E i \in 1..Len(s) : s[i] = "#"
    THEN splitPop(SubSeq(s, (CHOOSE i \in 1..Len(s) : s[i] = "#"
                                 /\ \A j \in 1..(i - 1) : s[j] # "#") + 1, Len(s)))
    ELSE s

unknown == <<"u","n","k","n","o","w","n">>

\* the currency code of a Money element (script.js 253-261)
moneyCurrency(money) ==
    IF money.hasUnit /\ money.resource # <<>> THEN splitPop(money.resource) ELSE unknown

\* addAmount as it would be if the total summed the amounts unconverted
addAmountUnconverted(acc, quantityText, currency, amount) ==
    IF quantityText # <<>> /\ currency # unknown
       /\ ~amount.isNull /\ isValidCurrency(currency)
    THEN [amounts |-> Append(acc.amounts, [amount |-> amount.v, currency |-> currency]),
          totalFlorinValue |-> acc.totalFlorinValue + amount.v * FlorinUnit]
    ELSE acc

\* the checks of the body of moneyElements.forEach and its push
\* (script.js 263-275): acc is [amounts, totalFlorinValue]; the currency
\* converted is a valid one, so the product is a number
addAmount(acc, quantityText, currency, amount) ==
    IF quantityText # <<>> /\ currency # unknown
       /\ ~amount.isNull /\ isValidCurrency(currency)
    THEN [amounts |-> Append(acc.amounts, [amount |-> amount.v, currency |-> currency]),
          totalFlorinValue |-> acc.totalFlorinValue + convertToFlorin(amount.v, currency).v]
    ELSE acc

\* the body of moneyElements.forEach (script.js 250-277)
parseMoney(acc, money) ==
    addAmount(acc, getTextContent(money.quantity), moneyCurrency(money),
              validateNumericValue(getTextContent(money.quantity)))

RECURSIVE parseMoneyElements(_, _)
parseMoneyElements(acc, moneyElements) ==
    IF moneyElements = <<>> THEN acc
    ELSE parseMoneyElements(parseMoney(acc, Head(moneyElements)), Tail(moneyElements))

kwRecepimus == <<"r","e","c","e","p","i","m","u","s">>

kwEinnahmen == <<"e","i","n","n","a","h","m","e","n">>

\* the keyword as the source file spells it
kwFuer == <<"f","Ã","¼","r">>

kwDabimus == <<"d","a","b","i","m","u","s">>

\* the type of a transaction with lower-cased entry text entryLower
\* (script.js 281-286)
typeOfEntry(entryLower) ==
    IF includes(entryLower, kwRecepimus) \/ includes(entryLower, kwEinnahmen)
    THEN "income"
    ELSE IF includes(entryLower, kwFuer) \/ includes(entryLower, kwDabimus)
    THEN "expense"
    ELSE "trade"

\* script.js 279-286
transactionType(entry) == typeOfEntry(toLowerCase(entry))

\* the longest run of lower-case letters of s from position i on: its end
RECURSIVE lowerRunEnd(_, _)
lowerRunEnd(s, i) ==
    IF i <= Len(s) /\ IsLower(s[i]) THEN lowerRunEnd(s, i + 1) ELSE i - 1

RECURSIVE spaceRunEnd(_, _)
spaceRunEnd(s, i) ==
    IF i <= Len(s) /\ IsSpace(s[i]) THEN spaceRunEnd(s, i + 1) ELSE i - 1

\* [A-Z][a-z]+ at position i
wordAt(s, i) == i + 1 <= Len(s) /\ IsUpper(s[i]) /\ IsLower(s[i + 1])

\* the end of (?:\s+[A-Z][a-z]+)* after a word that ends at e
RECURSIVE moreWordsEnd(_, _)
moreWordsEnd(s, e) ==
    LET sp == spaceRunEnd(s, e + 1)
    IN  IF sp > e /\ wordAt(s, sp + 1)
        THEN moreWordsEnd(s, lowerRunEnd(s, sp + 2))
        ELSE e

\* text.match(/[A-Z][a-z]+(?:\s+[A-Z][a-z]+)*/g) from position i on
RECURSIVE nameMatches(_, _)
nameMatches(s, i) ==
    IF i > Len(s) THEN <<>>
    ELSE IF wordAt(s, i)
         THEN LET e == moreWordsEnd(s, lowerRunEnd(s, i + 1))
              IN  <<SubSeq(s, i, e)>> \o nameMatches(s, e + 1)
         ELSE nameMatches(s, i + 1)

stopWords == << <<"I","t","e","m">>, <<"M","a","i","i">>,
                <<"A","p","r","i","l","i","s">>, <<"A","n","n","o">> >>

extractPeopleAndPlaces(text) ==
    SelectSeq(nameMatches(text, 1),
              LAMBDA match : Len(match) > 2 /\ ~ArrayIncludes(stopWords, match))

\* the transaction built from the element at 0-based position index when
\* the store holds transactionId transactions (script.js 242-303)
buildTransaction(transaction, index, transactionId, tz) ==
    LET entry == getTextContent(transaction.entry)
        when  == validateAndParseDate(getTextContent(transaction.when), tz)
        money == parseMoneyElements([amounts |-> <<>>, totalFlorinValue |-> 0],
                                    transaction.money)
    IN  [id               |-> transactionId,
         originalId       |-> index + 1,
         date             |-> when,
         entry            |-> entry,
         amounts          |-> money.amounts,
         totalFlorinValue |-> money.totalFlorinValue,
         type             |-> transactionType(entry),
         people           |-> extractPeopleAndPlaces(entry),
         rawXML           |-> transaction]

\* hasEntry as it would be on the text before trimming
hasEntryUntrimmed(transaction) == transaction.entry # <<>>

\* if (entry): the element is pushed to the store (script.js 291)
hasEntry(transaction) == getTextContent(transaction.entry) # <<>>

\* pushedElements as it would be if the first element without entry text
\* ended the loop
pushedElementsUntilFailure(xmlDoc) ==
    SelectSeq([n \in 1..Len(xmlDoc) |-> n],
              LAMBDA n : \A m \in 1..n : getTextContent(xmlDoc[m].entry) # <<>>)

\* the 1-based positions of the elements the loop pushes, in document order
pushedElements(xmlDoc) ==
    SelectSeq([n \in 1..Len(xmlDoc) |-> n], LAMBDA n : hasEntry(xmlDoc[n]))

\* nextTransactionId as it would be if the length were read once, before
\* the loop
firstTransactionId(k) == 0

\* the id given to the k-th pushed transaction: this.transactions.length at
\* the push (script.js 292)
nextTransactionId(k) == k - 1

\* parseXMLData (script.js 233-318): the new value of this.transactions.
\* Every element runs in its own try block, so the loop visits all of them;
\* the k-th element with entry text is pushed when the store holds k - 1
\* transactions.
parseXMLData(xmlDoc, tz) ==
    LET pushed == pushedElements(xmlDoc)
    IN  [k \in 1..Len(pushed) |->
            buildTransaction(xmlDoc[pushed[k]], pushed[k] - 1, nextTransactionId(k), tz)]

\* ------------------------------------------------------------------------
\* The data files
\* ------------------------------------------------------------------------

DocA ==
    << [entry |-> <<" ","M","a","r","t","i","n"," ","w","a","i","t","z"," ">>,
       when |-> <<"1","5","5","7","-","0","5","-","2","8">>,
       money |-> <<[quantity |-> <<"1","8">>, hasUnit |-> TRUE, resource |-> <<"u","#","f">>]>>],

       [entry |-> <<" "," ">>,
       when |-> <<"1","5","5","7","-","0","5","-","0","1">>,
       money |-> <<[quantity |-> <<"5">>, hasUnit |-> TRUE, resource |-> <<"u","#","s">>]>>],

       [entry |-> <<"I","t","e","m"," ","r","e","c","e","p","i","m","u","s">>,
       when |-> <<"2","4","0","0","-","1","2","-","2","4">>,
       money |-> <<[quantity |-> <<"2","4","0">>, hasUnit |-> TRUE, resource |-> <<"u","#","d">>],
                   [quantity |-> <<"-","5">>, hasUnit |-> TRUE, resource |-> <<"u","#","f">>],
                   [quantity |-> <<"7">>, hasUnit |-> TRUE, resource |-> <<"u","#","x">>],
                   [quantity |-> <<"a","b","c">>, hasUnit |-> TRUE, resource |-> <<"u","#","f">>]>>],

       [entry |-> <<"A","n","n","o"," ","H","a","n","s">>,
       when |-> <<"1","5","5","7","-","0","4","-","0","2">>,
       money |-> <<[quantity |-> <<"1","0","0","0","0","1">>, hasUnit |-> TRUE, resource |-> <<"u","#","f">>]>>],

       [entry |-> <<"d","a","b","i","m","u","s"," ","H","a","n","s">>,
       when |-> <<"1","8","0","1","-","0","1","-","0","1">>,
       money |-> <<[quantity |-> <<"4",".","5">>, hasUnit |-> TRUE, resource |-> <<"u","#","g","r">>],
                   [quantity |-> <<"1","2","a","b","c">>, hasUnit |-> TRUE, resource |-> <<"u","#","t">>]>>],

       [entry |-> <<"h","a","n","s"," ","w","i","r","t">>,
       when |-> <<"1","8","0","0","-","1","2","-","3","1","T","2","3",":","0","0">>,
       money |-> <<[quantity |-> <<"1","0","0","0","0","0">>, hasUnit |-> TRUE, resource |-> <<"u","#","l">>],
                  [quantity |-> <<"0">>, hasUnit |-> TRUE, resource |-> <<"u","#","f">>]>>],

       [entry |-> <<"M","a","r","t","i","n">>,
       when |-> <<"1","2","0","0","-","0","1","-","0","1","T","0","0",":","0","0">>,
       money |-> <<[quantity |-> <<"3">>, hasUnit |-> FALSE, resource |-> <<>>],
                   [quantity |-> <<"2">>, hasUnit |-> TRUE, resource |-> <<"u","n","k","n","o","w","n">>]>>],

       [entry |-> <<"(","x">>,
       when |-> <<"1","5","5","7","-","1","2","-","2","4">>,
       money |-> <<[quantity |-> <<" ","3","0"," ">>, hasUnit |-> TRUE, resource |-> <<"u","#","s">>],
                   [quantity |-> <<>>, hasUnit |-> TRUE, resource |-> <<"u","#","f">>],
                   [quantity |-> <<"1">>, hasUnit |-> TRUE, resource |-> <<"p">>]>>],

       [entry |-> <<>>,
       when |-> <<"x">>,
       money |-> <<[quantity |-> <<"1">>, hasUnit |-> TRUE, resource |-> <<"u","#","f">>]>>] >>

\* an empty document (<root></root>, or the error document of malformed XML)
DocC == << >>

transactionsPerPage == 50

\* a long document: more records than one page of the table holds, the
\* first of them with a parenthesis as its text
DocDLen == transactionsPerPage + 1

DocD ==
    [i \in 1..DocDLen |->
        [entry |-> IF i = 1 THEN <<"(">> ELSE <<"w">>, when |-> <<>>, money |-> <<>>]]

\* a document of dated records for the charts and the modal: two records
\* of one day with the values 100 and 82, records one day, two days and
\* seven days from it, a first day of a month, a date no calendar has, a
\* record without date; every currency; equal amounts and an amount of 0;
\* texts with a person, a place and a commodity, with a place and a
\* commodity but no person, and without any of them
DocB ==
    << [entry |-> <<"H","a","n","s"," ","W","i","r","t"," ","v","o","n"," ",
                    "A","i","t","e","n","p","a","c","h"," ","K","o","r","n">>,
        when  |-> <<"1","5","5","7","-","0","5","-","0","1">>,
        money |-> <<[quantity |-> <<"1","0","0">>, hasUnit |-> TRUE, resource |-> <<"u","#","f">>]>>],

       [entry |-> <<"z","u"," ","A","i","t","e","n","p","a","c","h"," ","3"," ","K","o","r","n">>,
        when  |-> <<"1","5","5","7","-","0","5","-","0","1">>,
        money |-> <<[quantity |-> <<"8","2">>, hasUnit |-> TRUE, resource |-> <<"u","#","f">>]>>],

       [entry |-> <<"w","a","i","t","z">>,
        when  |-> <<"1","5","5","7","-","0","5","-","0","8">>,
        money |-> <<[quantity |-> <<"2","4","0">>, hasUnit |-> TRUE, resource |-> <<"u","#","d">>],
                    [quantity |-> <<"3","0">>, hasUnit |-> TRUE, resource |-> <<"u","#","s">>]>>],

       [entry |-> <<"w">>,
        when  |-> <<"1","5","5","7","-","0","5","-","0","2">>,
        money |-> <<[quantity |-> <<"8","2">>, hasUnit |-> TRUE, resource |-> <<"u","#","f">>],
                    [quantity |-> <<"0">>, hasUnit |-> TRUE, resource |-> <<"u","#","g","r">>]>>],

       [entry |-> <<"(","x">>,
        when  |-> <<"1","5","5","7","-","1","3","-","4","5">>,
        money |-> <<[quantity |-> <<"5">>, hasUnit |-> TRUE, resource |-> <<"u","#","t">>],
                    [quantity |-> <<"1">>, hasUnit |-> TRUE, resource |-> <<"u","#","p">>]>>],

       [entry |-> <<"i","t","e","m">>,
        when  |-> <<>>,
        money |-> <<[quantity |-> <<"4">>, hasUnit |-> TRUE, resource |-> <<"u","#","l">>]>>],

       [entry |-> <<"H","e","r","r"," ","M","a","r","t","i","n"," ","S","a","l","z">>,
        when  |-> <<"1","5","5","7","-","0","5","-","0","2">>,
        money |-> <<[quantity |-> <<"1","0","0">>, hasUnit |-> TRUE, resource |-> <<"u","#","f">>],
                    [quantity |-> <<"0">>, hasUnit |-> TRUE, resource |-> <<"u","#","f">>]>>],

       [entry |-> <<"v">>,
        when  |-> <<"1","5","5","7","-","0","5","-","0","2">>,
        money |-> <<[quantity |-> <<"1","0","0">>, hasUnit |-> TRUE, resource |-> <<"u","#","f">>]>>],

       [entry |-> <<"h">>,
        when  |-> <<"1","5","5","7","-","0","5","-","0","3">>,
        money |-> <<[quantity |-> <<"9","0">>, hasUnit |-> TRUE, resource |-> <<"u","#","f">>]>>] >>

\* the data files of the selector
Files == {"A", "B", "C", "D"}

\* the files selected when the table is looked at, and when the charts are
TableFiles == {"A", "C", "D"}
ChartFiles == {"B", "C"}

\* the decoded content of the response to fetch(selectedFile)
Document(file) ==
    CASE file = "A" -> DocA
      [] file = "B" -> DocB
      [] file = "C" -> DocC
      [] file = "D" -> DocD

\* ------------------------------------------------------------------------
\* The aggregations of the charts
\* ------------------------------------------------------------------------

\* What a function that may throw yields: threw, and the value it returns
\* when it does not throw.
returns(value) == [threw |-> FALSE, value |-> value]
throws == [threw |-> TRUE, value |-> <<>>]

\* Date.prototype.getMonth and getDate: the month, from 0, and the day of
\* the month in local time
getMonth(t, tz) == ShiftHours(t, tz).m - 1
getDate(t, tz) == ShiftHours(t, tz).d

\* the number of days from 1970-01-01 to the day d of month m of year y
daysFromCivil(y, m, d) ==
    LET yy  == IF m <= 2 THEN y - 1 ELSE y
        mp  == (m + 9) % 12
        yoe == yy % 400
        doy == (153 * mp + 2) \div 5 + d - 1
    IN  (yy \div 400) * 146097 + yoe * 365 + yoe \div 4 - yoe \div 100 + doy - 719468

\* the day of the week of a day of the calendar, 0 for Sunday
weekDay(y, m, d) == (daysFromCivil(y, m, d) + 4) % 7

\* Date.prototype.getDay: the day of the week in local time
getDay(t, tz) == weekDay(ShiftHours(t, tz).y, ShiftHours(t, tz).m, ShiftHours(t, tz).d)

\* the fields t moved back by k days, k < 28
daysBefore(t, k) ==
    IF t.d > k THEN [t EXCEPT !.d = t.d - k]
    ELSE IF t.m > 1
         THEN [t EXCEPT !.m = t.m - 1, !.d = t.d - k + DaysInMonth(t.y, t.m - 1)]
         ELSE [t EXCEPT !.y = t.y - 1, !.m = 12, !.d = t.d - k + 31]

\* weekStart.setDate(date.getDate() - date.getDay()) (script.js 1280-1281):
\* the day of the month is set in local time
weekStart(t, tz) == ShiftHours(daysBefore(ShiftHours(t, tz), getDay(t, tz)), 0 - tz)

\* String(n) of a natural number
RECURSIVE numberToString(_)
numberToString(n) ==
    IF n < 10 THEN <<Digits[n + 1]>>
    ELSE Append(numberToString(n \div 10), Digits[(n % 10) + 1])

\* String(NaN)
NaNText == <<"N","a","N">>

\* String(s).padStart(2, '0')
padStart2(s) == IF Len(s) < 2 THEN <<"0">> \o s ELSE s

\* date.toISOString().split('T')[0], which throws for an invalid date
toISOStringDate(t) == IF t.valid THEN returns(toISODate(t)) ELSE throws

\* the text of date.getFullYear() and of date.getMonth() + 1 in a template
yearText(t, tz) == IF t.valid THEN numberToString(getFullYear(t, tz)) ELSE NaNText
monthText(t, tz) == IF t.valid THEN numberToString(getMonth(t, tz) + 1) ELSE NaNText

\* the key of the switch of aggregateTimelineData (script.js 1275-1292)
timelineKey(t, unit, tz) ==
    CASE unit = "week"  -> IF t.valid THEN toISOStringDate(weekStart(t, tz)) ELSE throws
      [] unit = "month" -> returns(yearText(t, tz) \o <<"-">> \o padStart2(monthText(t, tz))
                                       \o <<"-","0","1">>)
      [] unit = "year"  -> returns(yearText(t, tz) \o <<"-","0","1","-","0","1">>)
      [] OTHER          -> toISOStringDate(t)

\* the positions of the entries of the map data that hold the key
keyPositions(data, key) == {k \in 1..Len(data) : data[k].x = key}

\* data.set(key, 0) when the key is new, then data.set(key, data.get(key)
\* + value) (script.js 1294-1298); the map keeps the order of insertion
addToKey(data, key, value) ==
    IF keyPositions(data, key) = {} THEN Append(data, [x |-> key, y |-> value])
    ELSE [k \in 1..Len(data) |->
            IF data[k].x = key THEN [data[k] EXCEPT !.y = @ + value] ELSE data[k]]

\* one round of transactions.forEach in aggregateTimelineData
\* (script.js 1269-1299): acc is the map, or the exception thrown
timelineStep(acc, date, key, value) ==
    IF acc.threw \/ date = <<>> THEN acc
    ELSE IF key.threw THEN throws
    ELSE returns(addToKey(acc.value, key.value, value))

RECURSIVE timelineMap(_, _, _, _)
timelineMap(transactions, k, unit, tz) ==
    IF k = 0 THEN returns(<<>>)
    ELSE timelineStep(timelineMap(transactions, k - 1, unit, tz),
                      transactions[k].date,
                      timelineKey(DateParse(transactions[k].date, tz), unit, tz),
                      transactions[k].totalFlorinValue)

\* entries.sort(([a], [b]) => a.localeCompare(b)) (script.js 1301-1302):
\* the entry e put into a sorted sequence, behind the entries that do not
\* sort after it
RECURSIVE insertByKey(_, _)
insertByKey(sorted, e) ==
    IF sorted = <<>> THEN <<e>>
    ELSE IF localeCompare(sorted[Len(sorted)].x, e.x) <= 0 THEN Append(sorted, e)
    ELSE Append(insertByKey(SubSeq(sorted, 1, Len(sorted) - 1), e), sorted[Len(sorted)])

RECURSIVE sortByKey(_, _)
sortByKey(entries, k) ==
    IF k = 0 THEN <<>> ELSE insertByKey(sortByKey(entries, k - 1), entries[k])

\* the sorted entries of the map, unless the loop threw
sortedEntries(map) ==
    IF map.threw THEN throws ELSE returns(sortByKey(map.value, Len(map.value)))

\* aggregateTimelineData (script.js 1266-1307)
aggregateTimelineData(transactions, unit, tz) ==
    sortedEntries(timelineMap(transactions, Len(transactions), unit, tz))

\* the own properties of the object totals (script.js 1310)
totalsKeys == { <<"f">>, <<"s">>, <<"d">>, <<"g","r">> }

\* what one amount adds to the entry of its currency (script.js 1315-1319)
tallyOf(amount, metric) ==
    IF metric = "value" THEN convertToFlorin(amount.amount, amount.currency).v ELSE 1

\* the entry of code after the first k amounts of a transaction
RECURSIVE amountsTally(_, _, _, _)
amountsTally(amounts, k, code, metric) ==
    IF k = 0 THEN 0
    ELSE amountsTally(amounts, k - 1, code, metric)
           + (IF amounts[k].currency = code THEN tallyOf(amounts[k], metric) ELSE 0)

\* the entry of code after the first k transactions
RECURSIVE transactionsTally(_, _, _, _)
transactionsTally(transactions, k, code, metric) ==
    IF k = 0 THEN 0
    ELSE transactionsTally(transactions, k - 1, code, metric)
           + amountsTally(transactions[k].amounts, Len(transactions[k].amounts), code, metric)

\* aggregateCurrencyData (script.js 1309-1325): an amount is tallied when
\* totals has its currency as an own property
aggregateCurrencyData(transactions, metric) ==
    [code \in totalsKeys |-> transactionsTally(transactions, Len(transactions), code, metric)]

\* the option of histogramCurrency that selects every currency
all == <<"a","l","l">>

\* the amounts of one transaction pushed to allAmounts (script.js 1094-1100)
selectedAmounts(amounts, selectedCurrency) ==
    SelectSeq(amounts, LAMBDA a : selectedCurrency = all \/ a.currency = selectedCurrency)

\* allAmounts after the first k transactions (script.js 1092-1101)
RECURSIVE allAmounts(_, _, _)
allAmounts(transactions, k, selectedCurrency) ==
    IF k = 0 THEN <<>>
    ELSE allAmounts(transactions, k - 1, selectedCurrency)
           \o [j \in 1..Len(selectedAmounts(transactions[k].amounts, selectedCurrency)) |->
                  selectedAmounts(transactions[k].amounts, selectedCurrency)[j].amount]

\* allAmounts.filter(a => a > 0)
positiveAmounts(list) == SelectSeq(list, LAMBDA a : a > 0)

\* Math.min(...amounts) and Math.max(...amounts) of a non-empty list
minOf(amounts) ==
    CHOOSE a \in {amounts[k] : k \in 1..Len(amounts)} : \A k \in 1..Len(amounts) : a <= amounts[k]
maxOf(amounts) ==
    CHOOSE a \in {amounts[k] : k \in 1..Len(amounts)} : \A k \in 1..Len(amounts) : a >= amounts[k]

\* bucketCount times minAmount + i * bucketSize, bucketSize being
\* (maxAmount - minAmount) / bucketCount
rangeLimit(i, bucketCount, minAmount, maxAmount) ==
    minAmount * bucketCount + i * (maxAmount - minAmount)

\* inBucket as it would be without the branch of the last bucket
inBucketHalfOpen(amount, i, bucketCount, minAmount, maxAmount) ==
    /\ amount * bucketCount >= rangeLimit(i, bucketCount, minAmount, maxAmount)
    /\ amount * bucketCount < rangeLimit(i + 1, bucketCount, minAmount, maxAmount)

\* the amount is counted in bucket i, from 0 (script.js 1126-1133:
\* amount >= rangeStart && amount < rangeEnd, or the last bucket and
\* amount >= rangeStart)
inBucket(amount, i, bucketCount, minAmount, maxAmount) ==
    \/ /\ amount * bucketCount >= rangeLimit(i, bucketCount, minAmount, maxAmount)
       /\ amount * bucketCount < rangeLimit(i + 1, bucketCount, minAmount, maxAmount)
    \/ /\ i = bucketCount - 1
       /\ amount * bucketCount >= rangeLimit(i, bucketCount, minAmount, maxAmount)

\* x.toFixed(1) of x = limit / bucketCount, as a number of tenths
toFixed1(limit, bucketCount) == (2 * limit + bucketCount) \div (2 * bucketCount)

\* the label of bucket i: rangeStart.toFixed(1) and rangeEnd.toFixed(1)
bucketLabel(i, bucketCount, minAmount, maxAmount) ==
    [start |-> toFixed1(rangeLimit(i, bucketCount, minAmount, maxAmount), bucketCount),
     end   |-> toFixed1(rangeLimit(i + 1, bucketCount, minAmount, maxAmount), bucketCount)]

\* the labels and the buckets built from the positive amounts
\* (script.js 1112-1138)
histogramOf(amounts, bucketCount, minAmount, maxAmount) ==
    [labels |-> [i \in 1..bucketCount |->
                    bucketLabel(i - 1, bucketCount, minAmount, maxAmount)],
     data   |-> [i \in 1..bucketCount |->
                    Cardinality({k \in 1..Len(amounts) :
                                    inBucket(amounts[k], i - 1, bucketCount,
                                             minAmount, maxAmount)})]]

\* the labels and the data updateHistogramChart gives the chart, from the
\* amounts left by the filter (script.js 1104-1138)
histogramOfPositive(amounts, bucketCount) ==
    IF Len(amounts) = 0 THEN [labels |-> <<>>, data |-> <<>>]
    ELSE histogramOf(amounts, bucketCount, minOf(amounts), maxOf(amounts))

\* updateHistogramChart (script.js 1083-1146)
updateHistogramChart(transactions, bucketCount, selectedCurrency) ==
    histogramOfPositive(
        positiveAmounts(allAmounts(transactions, Len(transactions), selectedCurrency)),
        bucketCount)

\* monthNames, quarterNames and dayNames (script.js 1161, 1189, 1216)
monthNames == << "Jan", "Feb", "Mar", "Apr", "May", "Jun",
                 "Jul", "Aug", "Sep", "Oct", "Nov", "Dec" >>
quarterNames == << "Q1", "Q2", "Q3", "Q4" >>
dayNames == << "Sun", "Mon", "Tue", "Wed", "Thu", "Fri", "Sat" >>

\* the names of the buckets of a view of the seasonal chart
seasonalNames(view) ==
    CASE view = "monthly"   -> monthNames
      [] view = "quarterly" -> quarterNames
      [] view = "weekday"   -> dayNames

\* the key a transaction is looked up with: getMonth(), Math.floor(month /
\* 3) or getDay() of new Date(t.date), from 0
seasonalKey(t, view, tz) ==
    CASE view = "monthly"   -> getMonth(t, tz)
      [] view = "quarterly" -> getMonth(t, tz) \div 3
      [] view = "weekday"   -> getDay(t, tz)

\* a number divided by a number: the numerator and the denominator
quotient(num, den) == [num |-> num, den |-> den]

\* one round of this.filteredTransactions.forEach (script.js 1168-1177,
\* 1195-1204, 1222-1230): acc is the map, or the exception thrown.  Of an
\* invalid date the key is NaN, the map has no entry for it and the
\* access to the field total of undefined throws.
seasonalStep(acc, date, t, view, tz, value) ==
    IF acc.threw \/ date = <<>> THEN acc
    ELSE IF ~t.valid THEN throws
    ELSE returns([acc.value EXCEPT ![seasonalKey(t, view, tz)] =
                     [total |-> @.total + value, count |-> @.count + 1]])

\* the map after the first k transactions; it starts with every key at
\* total 0 and count 0
RECURSIVE seasonalMap(_, _, _, _)
seasonalMap(transactions, k, view, tz) ==
    IF k = 0
    THEN returns([idx \in 0..(Len(seasonalNames(view)) - 1) |-> [total |-> 0, count |-> 0]])
    ELSE seasonalStep(seasonalMap(transactions, k - 1, view, tz),
                      transactions[k].date,
                      DateParse(transactions[k].date, tz), view, tz,
                      transactions[k].totalFlorinValue)

\* labels, avgValues and counts read from the map (script.js 1179-1184,
\* 1206-1211, 1232-1237)
seasonalSeries(map, view) ==
    IF map.threw THEN throws
    ELSE returns(
        [labels    |-> seasonalNames(view),
         avgValues |-> [i \in 1..Len(seasonalNames(view)) |->
                          IF map.value[i - 1].count > 0
                          THEN quotient(map.value[i - 1].total, map.value[i - 1].count)
                          ELSE quotient(0, 1)],
         counts    |-> [i \in 1..Len(seasonalNames(view)) |-> map.value[i - 1].count]])

\* updateSeasonalChart (script.js 1148-1251)
updateSeasonalChart(transactions, view, tz) ==
    seasonalSeries(seasonalMap(transactions, Len(transactions), view, tz), view)

\* ------------------------------------------------------------------------
\* The related transactions of the modal
\* ------------------------------------------------------------------------

\* \w of the regular expressions, and \b before position i of s
isWordChar(c) == IsUpper(c) \/ IsLower(c) \/ IsDigit(c) \/ c = "_"
wordBoundary(s, i) ==
    (i > 1 /\ isWordChar(s[i - 1])) # (i <= Len(s) /\ isWordChar(s[i]))

\* the two character classes of the patterns of extractEntitiesFromText as
\* the file holds them (script.js 1810): the letters A-Z and a-z and the
\* characters its byte sequences decode to, of which the printable ones
\* are kept
nameUpper(c) == IsUpper(c) \/ c = "Ã"
nameLower(c) == IsLower(c) \/ c \in {"Ã", "¤", "¶", "¼"}

\* the end of the longest run of characters of the second class from
\* position i on
RECURSIVE nameRunEnd(_, _)
nameRunEnd(s, i) ==
    IF i <= Len(s) /\ nameLower(s[i]) THEN nameRunEnd(s, i + 1) ELSE i - 1

\* the text t at position i of s
textAt(s, i, t) == i + Len(t) - 1 <= Len(s) /\ SubSeq(s, i, i + Len(t) - 1) = t

\* the end of ([A-Z..][a-z..]+)\b at position j, the longest run first; 0
\* when there is no match
capitalEnd(s, j) ==
    IF j + 1 <= Len(s) /\ nameUpper(s[j]) /\ nameLower(s[j + 1])
    THEN LET ends == {e \in (j + 1)..nameRunEnd(s, j + 1) : wordBoundary(s, e + 1)}
         IN  IF ends = {} THEN 0 ELSE CHOOSE e \in ends : \A f \in ends : f <= e
    ELSE 0

\* the end of \s+ followed by the capitalized word, after position e; 0
\* when there is no match
spacedCapitalEnd(s, e) ==
    IF spaceRunEnd(s, e + 1) > e THEN capitalEnd(s, spaceRunEnd(s, e + 1) + 1) ELSE 0

von == <<"v","o","n">>
Herr == <<"H","e","r","r">>

\* the end of \s+(?:von\s+)?([A-Z..][a-z..]+)\b after position e
vonCapitalEnd(s, e) ==
    IF spaceRunEnd(s, e + 1) > e /\ textAt(s, spaceRunEnd(s, e + 1) + 1, von)
       /\ spacedCapitalEnd(s, spaceRunEnd(s, e + 1) + Len(von)) > 0
    THEN spacedCapitalEnd(s, spaceRunEnd(s, e + 1) + Len(von))
    ELSE spacedCapitalEnd(s, e)

\* the end of the match of the first name pattern at position i; 0 when
\* there is none
nameEnd(s, i) ==
    IF wordBoundary(s, i) /\ i + 1 <= Len(s) /\ nameUpper(s[i]) /\ nameLower(s[i + 1])
    THEN vonCapitalEnd(s, nameRunEnd(s, i + 1))
    ELSE 0

\* the end of the match of /\bHerr\s+([A-Z..][a-z..]+)\b/ at position i
herrEnd(s, i) ==
    IF wordBoundary(s, i) /\ textAt(s, i, Herr)
    THEN spacedCapitalEnd(s, i + Len(Herr) - 1)
    ELSE 0

\* the prepositions of placePattern, in the order of its alternatives
prepositions == << <<"z","u">>, von, <<"a","u","s">>, <<"i","n">> >>

\* the preposition at position i: its length, 0 when there is none
prepositionAt(s, i) ==
    IF \E k \in 1..Len(prepositions) : textAt(s, i, prepositions[k])
    THEN Len(prepositions[CHOOSE k \in 1..Len(prepositions) : textAt(s, i, prepositions[k])])
    ELSE 0

\* the end of the match of placePattern at position i
placeEnd(s, i) ==
    IF wordBoundary(s, i) /\ prepositionAt(s, i) > 0
    THEN spacedCapitalEnd(s, i + prepositionAt(s, i) - 1)
    ELSE 0

\* the start of the last capitalized word of a match that ends at e
RECURSIVE capitalStart(_, _)
capitalStart(s, e) == IF nameLower(s[e]) /\ ~IsSpace(s[e - 1]) THEN capitalStart(s, e - 1) ELSE e

\* the while loops of pattern.exec(text) (script.js 1814-1819): match[0]
\* of the matches of each name pattern from position i on
RECURSIVE nameMatchesFrom(_, _)
nameMatchesFrom(s, i) ==
    IF i > Len(s) THEN <<>>
    ELSE IF nameEnd(s, i) > 0
         THEN <<SubSeq(s, i, nameEnd(s, i))>> \o nameMatchesFrom(s, nameEnd(s, i) + 1)
         ELSE nameMatchesFrom(s, i + 1)

RECURSIVE herrMatchesFrom(_, _)
herrMatchesFrom(s, i) ==
    IF i > Len(s) THEN <<>>
    ELSE IF herrEnd(s, i) > 0
         THEN <<SubSeq(s, i, herrEnd(s, i))>> \o herrMatchesFrom(s, herrEnd(s, i) + 1)
         ELSE herrMatchesFrom(s, i + 1)

\* the while loop of placePattern.exec(text) (script.js 1823-1826):
\* match[1] of the matches from position i on
RECURSIVE placeMatchesFrom(_, _)
placeMatchesFrom(s, i) ==
    IF i > Len(s) THEN <<>>
    ELSE IF placeEnd(s, i) > 0
         THEN <<SubSeq(s, capitalStart(s, placeEnd(s, i)), placeEnd(s, i))>>
                 \o placeMatchesFrom(s, placeEnd(s, i) + 1)
         ELSE placeMatchesFrom(s, i + 1)

\* the commodities looked for (script.js 1829)
commodityNames ==
    << <<"K","o","r","n">>, <<"W","e","i","z","e","n">>, <<"G","e","r","s","t","e">>,
       <<"W","e","i","n">>, <<"B","i","e","r">>, <<"H","o","l","z">>, <<"S","a","l","z">> >>

\* extractEntitiesFromText (script.js 1799-1836)
extractEntitiesFromText(text) ==
    [people      |-> nameMatchesFrom(text, 1) \o herrMatchesFrom(text, 1),
     places      |-> placeMatchesFrom(text, 1),
     commodities |-> SelectSeq(commodityNames, LAMBDA commodity : includes(text, commodity))]

\* the days between two stored dates, and the points of their proximity
\* (script.js 1700-1706); the difference of an invalid date is NaN, which
\* no comparison holds of
daysDiff(date1, date2) ==
    LET days == daysFromCivil(date1.y, date1.m, date1.d) - daysFromCivil(date2.y, date2.m, date2.d)
    IN  IF days < 0 THEN 0 - days ELSE days

proximityPoints(date1, date2) ==
    IF date1.valid /\ date2.valid
    THEN (IF daysDiff(date1, date2) <= 7 THEN 2 ELSE 0)
           + (IF daysDiff(date1, date2) <= 1 THEN 3 ELSE 0)
    ELSE 0

dateScore(transaction, t) ==
    IF transaction.date # <<>> /\ t.date # <<>>
    THEN proximityPoints(DateParse(transaction.date, 0), DateParse(t.date, 0))
    ELSE 0

\* Math.min(a, b) / Math.max(a, b) > 0.8 of two values (script.js 1710-1712)
ratioAbove(a, b) == IF a <= b THEN a * 5 > b * 4 ELSE b * 5 > a * 4

valueScore(transaction, t) ==
    IF transaction.totalFlorinValue # 0 /\ t.totalFlorinValue # 0
       /\ ratioAbove(transaction.totalFlorinValue, t.totalFlorinValue)
    THEN 2 ELSE 0

\* script.js 1716-1721
currencyScore(transaction, t) ==
    IF \E i \in 1..Len(transaction.amounts) :
          \E j \in 1..Len(t.amounts) : transaction.amounts[i].currency = t.amounts[j].currency
    THEN 1 ELSE 0

\* sharedPeople, sharedPlaces, sharedCommodities (script.js 1728-1748)
sharedPeople(current, related) ==
    \E i \in 1..Len(current.people) : \E j \in 1..Len(related.people) :
        \/ includes(toLowerCase(related.people[j]), toLowerCase(current.people[i]))
        \/ includes(toLowerCase(current.people[i]), toLowerCase(related.people[j]))

sharedPlaces(current, related) ==
    \E i \in 1..Len(current.places) : \E j \in 1..Len(related.places) :
        toLowerCase(related.places[j]) = toLowerCase(current.places[i])

sharedCommodities(current, related) ==
    \E i \in 1..Len(current.commodities) : ArrayIncludes(related.commodities, current.commodities[i])

entityPoints(current, related) ==
    (IF sharedPeople(current, related) THEN 3 ELSE 0)
      + (IF sharedPlaces(current, related) THEN 2 ELSE 0)
      + (IF sharedCommodities(current, related) THEN 1 ELSE 0)

\* script.js 1724-1749
entityScore(t, currentEntities) ==
    IF t.entry # <<>> /\ Len(currentEntities.people) > 0
    THEN entityPoints(currentEntities, extractEntitiesFromText(t.entry))
    ELSE 0

\* relatedScore as it would be without the points of the value
relatedScoreUnvalued(transaction, t, currentEntities) ==
    dateScore(transaction, t) + currencyScore(transaction, t) + entityScore(t, currentEntities)

\* the score the callback of filter computes for t (script.js 1697-1749)
relatedScore(transaction, t, currentEntities) ==
    dateScore(transaction, t) + valueScore(transaction, t) + currencyScore(transaction, t)
      + entityScore(t, currentEntities)

\* isKept as it would be without the test t === transaction
isKeptWithTarget(transactions, k, target, currentEntities) ==
    relatedScore(transactions[target], transactions[k], currentEntities) > 0

\* the callback of filter returns false for the transaction of the modal,
\* which is the element at position target, an object for a score above 0
\* and null otherwise (script.js 1695, 1751): filter keeps the elements for
\* which it returns neither false nor null
isKept(transactions, k, target, currentEntities) ==
    /\ k # target
    /\ relatedScore(transactions[target], transactions[k], currentEntities) > 0

\* this.transactions.filter(...): the elements kept are the transactions
\* themselves, not the objects the callback returns.  An element is named
\* by its position in this.transactions, which tells two transactions of
\* the same content apart as === does.
RECURSIVE filterRelated(_, _, _, _)
filterRelated(transactions, k, target, currentEntities) ==
    IF k = 0 THEN <<>>
    ELSE IF isKept(transactions, k, target, currentEntities)
         THEN Append(filterRelated(transactions, k - 1, target, currentEntities), k)
         ELSE filterRelated(transactions, k - 1, target, currentEntities)

\* b.score - a.score of the comparator (script.js 1753): a difference of
\* undefined is NaN, which sort takes as 0
compareScores(a, b) ==
    IF "score" \in DOMAIN a /\ "score" \in DOMAIN b THEN b.score - a.score ELSE 0

\* .sort((a, b) => b.score - a.score): a stable sort; e is put into a
\* sorted sequence behind the entries that do not sort after it
RECURSIVE insertByScore(_, _, _)
insertByScore(transactions, sorted, e) ==
    IF sorted = <<>> THEN <<e>>
    ELSE IF compareScores(transactions[sorted[Len(sorted)]], transactions[e]) <= 0
         THEN Append(sorted, e)
         ELSE Append(insertByScore(transactions, SubSeq(sorted, 1, Len(sorted) - 1), e),
                     sorted[Len(sorted)])

RECURSIVE sortByScore(_, _, _)
sortByScore(transactions, entries, k) ==
    IF k = 0 THEN <<>>
    ELSE insertByScore(transactions, sortByScore(transactions, entries, k - 1), entries[k])

sortRelated(transactions, entries) == sortByScore(transactions, entries, Len(entries))

\* Array.prototype.slice(start, end)
slice(a, start, end) ==
    LET rel(k) == IF k < 0 THEN (IF Len(a) + k < 0 THEN 0 ELSE Len(a) + k)
                  ELSE (IF k > Len(a) THEN Len(a) ELSE k)
    IN  SubSeq(a, rel(start) + 1, rel(end))

\* the number of related transactions shown
topN == 5

\* the list related of loadRelatedTab (script.js 1691-1754), the
\* transaction of the modal being this.transactions[target]: the positions
\* of its elements in this.transactions
loadRelatedTab(transactions, target) ==
    slice(sortRelated(transactions,
                      filterRelated(transactions, Len(transactions), target,
                                    extractEntitiesFromText(transactions[target].entry))),
          0, topN)

\* ------------------------------------------------------------------------
\* The payload of the JSON export
\* ------------------------------------------------------------------------

\* t[name] of an object: missing where the object has no property of the
\* name, which stands for undefined in the tests of truth
property(t, name, missing) == IF name \in DOMAIN t THEN t[name] ELSE missing

\* t.amount, t.currency and t.when || t.date as the export reads them
\* (part_001 98-99, 208, 218, 225)
exportAmount(t) == property(t, "amount", 0)
exportCurrency(t) == property(t, "currency", <<>>)
exportDate(t) ==
    IF property(t, "when", <<>>) # <<>> THEN t.when ELSE property(t, "date", <<>>)

\* a + b of two numbers
plus(a, b) == IF a.nan \/ b.nan THEN NaN ELSE [nan |-> FALSE, v |-> a.v + b.v]

\* calculateTotalValue (part_001 223-227): the reduce over the first k
\* transactions, in units of 1/ExportUnit of a tenth
RECURSIVE reduceTotalValue(_, _)
reduceTotalValue(transactions, k) ==
    IF k = 0 THEN [nan |-> FALSE, v |-> 0]
    ELSE plus(reduceTotalValue(transactions, k - 1),
              ExportManager_convertToFlorins(exportAmount(transactions[k]),
                                             exportCurrency(transactions[k])))

calculateTotalValue(transactions) == reduceTotalValue(transactions, Len(transactions))

\* calculateAverageTransaction (part_001 230-233): total / length, kept as
\* a fraction
calculateAverageTransaction(transactions) ==
    IF Len(transactions) > 0
    THEN quotient(calculateTotalValue(transactions), Len(transactions))
    ELSE quotient([nan |-> FALSE, v |-> 0], 1)

\* [...new Set(list)]: the elements in the order of their first occurrence
RECURSIVE uniqueOf(_, _)
uniqueOf(list, k) ==
    IF k = 0 THEN <<>>
    ELSE IF ArrayIncludes(uniqueOf(list, k - 1), list[k]) THEN uniqueOf(list, k - 1)
         ELSE Append(uniqueOf(list, k - 1), list[k])

\* getUniqueCurrencies (part_001 217-219)
getUniqueCurrencies(transactions) ==
    uniqueOf(SelectSeq([k \in 1..Len(transactions) |-> exportCurrency(transactions[k])],
                       LAMBDA c : c # <<>>),
             Len(SelectSeq([k \in 1..Len(transactions) |-> exportCurrency(transactions[k])],
                           LAMBDA c : c # <<>>)))

\* the dates of getDateRange (part_001 204-207): new Date(d) of the dates
\* that are not empty
exportDates(transactions) ==
    SelectSeq([k \in 1..Len(transactions) |-> exportDate(transactions[k])],
              LAMBDA d : d # <<>>)

\* the day of a date, counted from 1970-01-01
dayNumber(d) == daysFromCivil(DateParse(d, 0).y, DateParse(d, 0).m, DateParse(d, 0).d)

\* getDateRange (part_001 203-214): null without dates; Math.min and
\* Math.max of the dates are NaN when one of them is invalid, and
\* toISOString() of the Date of NaN throws a RangeError; else the days of
\* the first and the last date
getDateRange(transactions) ==
    IF exportDates(transactions) = <<>> THEN returns(null)
    ELSE IF \E k \in 1..Len(exportDates(transactions)) :
               ~DateParse(exportDates(transactions)[k], 0).valid
    THEN throws
    ELSE returns([start |-> minOf([k \in 1..Len(exportDates(transactions)) |->
                                      dayNumber(exportDates(transactions)[k])]),
                  end   |-> maxOf([k \in 1..Len(exportDates(transactions)) |->
                                      dayNumber(exportDates(transactions)[k])])])

\* exportToJSON (part_001 82-147): the metadata and the statistics of
\* exportData; an exception of a helper is caught and false is returned
\* without a payload
exportToJSON(transactions) ==
    IF getDateRange(transactions).threw THEN [success |-> FALSE]
    ELSE [success    |-> TRUE,
          exportData |->
              [metadata   |-> [recordCount |-> Len(transactions),
                               dateRange   |-> getDateRange(transactions).value,
                               currencies  |-> getUniqueCurrencies(transactions)],
               statistics |-> [totalValue         |-> calculateTotalValue(transactions),
                               averageTransaction |-> calculateAverageTransaction(transactions)]]]

\* ------------------------------------------------------------------------
\* The store and its filtered view
\* ------------------------------------------------------------------------

\* a.filter(t => pred(t)) is SelectSeq; a.some(x => pred(x)) is \E

\* searchFilter as it would be if the entry and the names were compared
\* in their own case
searchFilterCaseSensitive(filtered, searchTerm) ==
    IF searchTerm # <<>>
    THEN SelectSeq(filtered, LAMBDA t :
            \/ includes(t.entry, searchTerm)
            \/ \E i \in 1..Len(t.people) : includes(t.people[i], searchTerm))
    ELSE filtered

\* the search filter of applyFilters (script.js 1428-1433)
searchFilter(filtered, searchTerm) ==
    IF searchTerm # <<>>
    THEN SelectSeq(filtered, LAMBDA t :
            \/ includes(toLowerCase(t.entry), searchTerm)
            \/ \E i \in 1..Len(t.people) : includes(toLowerCase(t.people[i]), searchTerm))
    ELSE filtered

\* the currency filter of applyFilters (script.js 1436-1441)
currencyFilterStep(filtered, currency) ==
    IF currency # <<>>
    THEN SelectSeq(filtered, LAMBDA t :
            \E i \in 1..Len(t.amounts) : t.amounts[i].currency = currency)
    ELSE filtered

\* the sentinel that stands for an absent date in the date comparison
noDate == <<"9","9","9","9">>

\* the comparator of filtered.sort (script.js 1445-1456): negative when a
\* sorts before b
compareTransactions(a, b, sortBy) ==
    CASE sortBy = "date"   ->
            localeCompare(IF b.date # <<>> THEN b.date ELSE noDate,
                          IF a.date # <<>> THEN a.date ELSE noDate)
      [] sortBy = "amount" -> b.totalFlorinValue - a.totalFlorinValue
      [] sortBy = "entry"  -> localeCompare(a.entry, b.entry)
      [] OTHER             -> 0

\* the stable merge of two sorted sequences: an element of left goes behind
\* the elements of right that sort before it, an element of right behind
\* the elements of left that do not sort after it
merge(left, right, sortBy) ==
    LET n == Len(left)
        m == Len(right)
        before(i) == CHOOSE k \in 0..m :
                        k = m \/ compareTransactions(right[k + 1], left[i], sortBy) >= 0
        after(j)  == CHOOSE k \in 0..n :
                        k = n \/ compareTransactions(left[n - k], right[j], sortBy) <= 0
        posLeft   == [i \in 1..n |-> i + before(i)]
        posRight  == [j \in 1..m |-> j + n - after(j)]
    IN  [p \in 1..(n + m) |->
            IF \E i \in 1..n : posLeft[i] = p
            THEN left[CHOOSE i \in 1..n : posLeft[i] = p]
            ELSE right[CHOOSE j \in 1..m : posRight[j] = p]]

\* one pass of a bottom-up merge sort: the sorted runs merged in pairs
mergePass(runs, sortBy) ==
    [k \in 1..((Len(runs) + 1) \div 2) |->
        IF 2 * k <= Len(runs) THEN merge(runs[2 * k - 1], runs[2 * k], sortBy)
        ELSE runs[2 * k - 1]]

RECURSIVE mergeRuns(_, _)
mergeRuns(runs, sortBy) ==
    IF Len(runs) = 1 THEN runs[1] ELSE mergeRuns(mergePass(runs, sortBy), sortBy)

\* Array.prototype.sort with the comparator: a stable sort (a sequence
\* already in order is left as it is)
sortTransactions(a, sortBy) ==
    IF \A i \in 1..(Len(a) - 1) : compareTransactions(a[i], a[i + 1], sortBy) <= 0
    THEN a
    ELSE mergeRuns([i \in 1..Len(a) |-> <<a[i]>>], sortBy)

\* applyFiltersView as it would be if filtered were the store itself and
\* not a copy of it: with no filter set, the sort is a sort of the store
applyFiltersViewInPlace(store, searchBoxValue, currency, sortBy) ==
    [transactions         |-> IF searchBoxValue = <<>> /\ currency = <<>>
                              THEN sortTransactions(store, sortBy)
                              ELSE store,
     filteredTransactions |->
         sortTransactions(currencyFilterStep(searchFilter(store, toLowerCase(searchBoxValue)),
                                             currency),
                          sortBy)]

\* the filtering and sorting part of applyFilters (script.js 1423-1459):
\* the store and the view after it.  The view is built from a copy of the
\* store, [...this.transactions], so the in-place sort leaves the store as
\* it is.
applyFiltersView(store, searchBoxValue, currency, sortBy) ==
    LET searchTerm == toLowerCase(searchBoxValue)
        filtered   == currencyFilterStep(searchFilter(store, searchTerm), currency)
    IN  [transactions         |-> store,
         filteredTransactions |-> sortTransactions(filtered, sortBy)]

\* the nesting depth of the parentheses of a pattern after each prefix
RECURSIVE parenDepths(_, _)
parenDepths(s, depth) ==
    IF s = <<>> THEN <<depth>>
    ELSE <<depth>> \o parenDepths(Tail(s),
                                  IF Head(s) = "(" THEN depth + 1
                                  ELSE IF Head(s) = ")" THEN depth - 1
                                  ELSE depth)

\* new RegExp(`(${searchTerm})`, 'gi') throws a SyntaxError: over the
\* letters and parentheses of the search terms, when the parentheses of
\* the term do not balance
regExpThrows(searchTerm) ==
    LET depths == parenDepths(searchTerm, 0)
    IN  \/ depths[Len(depths)] # 0
        \/ \E i \in 1..Len(depths) : depths[i] < 0

\* ceil(n / d)
ceilDiv(n, d) == (n + d - 1) \div d

\* The dashboard fields and page elements a handler writes, as one record:
\* transactions, filteredTransactions, currentPage, tableBody (the content
\* of transactionsBody: its kind, the message of the error it reports and
\* the rows it shows), prevDisabled and nextDisabled (the two buttons),
\* chartsView (for each of the four charts the sequence it was last drawn
\* from), threw (an exception is propagating) and error (its name).

\* renderTransactions (script.js 471-512)
renderTransactions(d, searchBoxValue) ==
    IF d.filteredTransactions = <<>>
    THEN [d EXCEPT !.tableBody = [kind |-> "nodata", message |-> "", rows |-> <<>>]]
    ELSE LET start == (d.currentPage - 1) * transactionsPerPage
             end   == start + transactionsPerPage
             pageTransactions == slice(d.filteredTransactions, start, end)
             searchTerm == toLowerCase(searchBoxValue)
         IN  IF pageTransactions # <<>> /\ searchTerm # <<>> /\ regExpThrows(searchTerm)
             THEN [d EXCEPT !.threw = TRUE, !.error = "SyntaxError"]
             ELSE [d EXCEPT !.tableBody = [kind |-> "rows", message |-> "", rows |-> pageTransactions]]

\* updatePagination (script.js 514-520)
updatePagination(d) ==
    LET totalPages == ceilDiv(Len(d.filteredTransactions), transactionsPerPage)
    IN  [d EXCEPT !.prevDisabled = d.currentPage <= 1,
                  !.nextDisabled = d.currentPage >= totalPages]

\* the values of timelineAggregation
TimelineUnits == {"day", "week", "month", "year"}

\* the four charts of the page
Charts == {"timeline", "currency", "histogram", "seasonal"}

\* the view holds a transaction with a stored date that is no date of the
\* calendar: toISOString() of its Date throws in aggregateTimelineData
\* (script.js 1277, 1282, 1290) and the Map of updateSeasonalChart has no
\* entry for its month, quarter or day (script.js 1170-1174)
holdsInvalidDate(view) ==
    \E i \in 1..Len(view) : view[i].date # <<>> /\ ~DateParse(view[i].date, 0).valid

\* the units of the timeline for which the key is made by toISOString()
isoKeyed(unit) == unit \notin {"month", "year"}

\* updateCharts (script.js 1041-1048); the page loads the chart library, so
\* the four charts exist.  unit is the value of timelineAggregation.  The
\* four updates run in turn: an exception of updateTimelineChart leaves
\* all charts as they were, an exception of updateSeasonalChart leaves
\* the seasonal chart as it was.
updateCharts(d, unit) ==
    IF Len(d.transactions) = 0 THEN d
    ELSE IF holdsInvalidDate(d.filteredTransactions) /\ isoKeyed(unit)
    THEN [d EXCEPT !.threw = TRUE, !.error = "RangeError"]
    ELSE IF holdsInvalidDate(d.filteredTransactions)
    THEN [d EXCEPT !.threw = TRUE, !.error = "TypeError",
                   !.chartsView = [chart \in Charts |->
                                      IF chart = "seasonal" THEN d.chartsView[chart]
                                      ELSE d.filteredTransactions]]
    ELSE [d EXCEPT !.chartsView = [chart \in Charts |-> d.filteredTransactions]]

\* the assignments of applyFilters (script.js 1458-1459): v is the store
\* and the view computed
setView(d, v) ==
    [d EXCEPT !.transactions = v.transactions,
              !.filteredTransactions = v.filteredTransactions,
              !.currentPage = 1]

\* the calls of applyFilters after renderTransactions (script.js
\* 1461-1480), which an exception skips
afterRender(d, unit) == IF d.threw THEN d ELSE updateCharts(updatePagination(d), unit)

\* applyFilters (script.js 1421-1481)
applyFiltersRender(d, searchBoxValue, currency, sortBy) ==
    renderTransactions(
        setView(d, applyFiltersView(d.transactions, searchBoxValue, currency, sortBy)),
        searchBoxValue)

applyFilters(d, searchBoxValue, currency, sortBy, unit) ==
    afterRender(applyFiltersRender(d, searchBoxValue, currency, sortBy), unit)

\* the call of changePage after renderTransactions (script.js 525)
afterPageRender(d) == IF d.threw THEN d ELSE updatePagination(d)

\* changePage (script.js 522-526)
changePage(d, direction, searchBoxValue) ==
    afterPageRender(renderTransactions([d EXCEPT !.currentPage = d.currentPage + direction],
                                       searchBoxValue))

\* the end of the try block of loadData and its catch block
\* (script.js 215-230); updateStats writes the four statistics of the
\* page, which are no part of the record
catch(d) ==
    IF d.threw
    THEN [d EXCEPT !.threw = FALSE,
                   !.tableBody = [kind |-> "error", message |-> d.error, rows |-> <<>>]]
    ELSE d

loadDataCatch(d, unit) == catch(IF d.threw THEN d ELSE updateCharts(d, unit))

\* what parseXMLData leaves in this.transactions for the response of each
\* data file in each zone: parseXMLData reads nothing but the response
\* text and the zone
ParsedDocuments ==
    [file \in Files |-> [tz \in TZOffsets |-> parseXMLData(Document(file), tz)]]

\* the part of loadData after the response text of selectedFile has
\* arrived (script.js 213-230)
loadDataRender(d, selectedFile, tz, searchBoxValue, currency, sortBy) ==
    applyFiltersRender([d EXCEPT !.transactions = ParsedDocuments[selectedFile][tz]],
                       searchBoxValue, currency, sortBy)

loadDataThen(d, selectedFile, tz, searchBoxValue, currency, sortBy, unit) ==
    loadDataCatch(afterRender(loadDataRender(d, selectedFile, tz, searchBoxValue,
                                             currency, sortBy),
                              unit),
                  unit)

\* ------------------------------------------------------------------------
\* The dashboard as a state machine
\* ------------------------------------------------------------------------

VARIABLES
    transactions,          \* this.transactions
    filteredTransactions,  \* this.filteredTransactions
    currentPage,           \* this.currentPage
    searchBox,             \* searchBox.value
    currencyFilter,        \* currencyFilter.value
    sortBy,                \* sortBy.value
    fileSelect,            \* fileSelect.value as loadData last read it
    pending,               \* for each file, the loadData calls that wait for its response
    loading,               \* the loading indicator is shown
    tableBody,             \* the content of transactionsBody
    prevDisabled,          \* prevButton.disabled
    nextDisabled,          \* nextButton.disabled
    chartsView,            \* the sequence each chart was last drawn from
    modalTransaction,      \* the id of the transaction the open modal shows, or -1
    call                   \* the last call of a function of the page: its name,
                           \* its arguments and what it returned

vars == << transactions, filteredTransactions, currentPage, searchBox, currencyFilter,
           sortBy, fileSelect, pending, loading, tableBody, prevDisabled, nextDisabled, chartsView,
           modalTransaction, call >>

\* the loadData calls that may wait for a response at the same time
MaxPending == 2

\* the number of loadData calls that wait for a response
RECURSIVE SumOver(_, _)
SumOver(count, files) ==
    IF files = {} THEN 0
    ELSE LET file == CHOOSE f \in files : TRUE
         IN  count[file] + SumOver(count, files \ {file})

Waiting(count) == SumOver(count, Files)

\* the texts typed into the search box
SearchTerms == { <<>>, <<"H","a","n">>, <<"(">> }

\* the options of the currency filter
CurrencyOptions == { <<>>, <<"f">> }

\* the options of the sort selector
SortOptions == {"date", "amount", "entry"}

\* the rows of the table, from the top, whose Details button is clicked
MaxClickRow == 1

\* The modal is an overlay of the whole page (a click on it outside its
\* content closes it, script.js 157-163): the controls of the page are used
\* while it is closed.
PageUsable == modalTransaction = -1

\* the fields and elements a handler writes, as a record
Dashboard ==
    [transactions         |-> transactions,
     filteredTransactions |-> filteredTransactions,
     currentPage          |-> currentPage,
     tableBody            |-> tableBody,
     prevDisabled         |-> prevDisabled,
     nextDisabled         |-> nextDisabled,
     chartsView           |-> chartsView,
     threw                |-> FALSE,
     error                |-> ""]

\* the record written back
Becomes(d) ==
    /\ transactions' = d.transactions
    /\ filteredTransactions' = d.filteredTransactions
    /\ currentPage' = d.currentPage
    /\ tableBody' = d.tableBody
    /\ prevDisabled' = d.prevDisabled
    /\ nextDisabled' = d.nextDisabled
    /\ chartsView' = d.chartsView

\* no function has been called
noCall == [fn |-> "none"]

\* the constructor (script.js 2-40); the page starts with an empty table,
\* both page buttons disabled and the first option of each selector
Init ==
    /\ transactions = <<>>
    /\ filteredTransactions = <<>>
    /\ currentPage = 1
    /\ searchBox = <<>>
    /\ currencyFilter = <<>>
    /\ sortBy = "date"
    /\ fileSelect = ""
    /\ pending = [file \in Files |-> 0]
    /\ loading = FALSE
    /\ tableBody = [kind |-> "initial", message |-> "", rows |-> <<>>]
    /\ prevDisabled = TRUE
    /\ nextDisabled = TRUE
    /\ chartsView = [chart \in Charts |-> <<>>]
    /\ modalTransaction = -1
    /\ call = noCall

\* loadData with no file selected (script.js 187-192)
LoadNoFile ==
    /\ PageUsable
    /\ fileSelect' = ""
    /\ UNCHANGED << transactions, filteredTransactions, currentPage, searchBox,
                    currencyFilter, sortBy, pending, loading, tableBody, prevDisabled,
                    nextDisabled, chartsView, modalTransaction, call >>

\* LoadStart as it would be if the store were emptied before the fetch
LoadStartClearing(selectedFile) ==
    /\ PageUsable
    /\ fileSelect' = selectedFile
    /\ Waiting(pending) < MaxPending
    /\ pending' = [pending EXCEPT ![selectedFile] = @ + 1]
    /\ loading' = TRUE
    /\ tableBody' = [kind |-> "loading", message |-> "", rows |-> <<>>]
    /\ transactions' = <<>>
    /\ UNCHANGED << filteredTransactions, currentPage, searchBox,
                    currencyFilter, sortBy, prevDisabled, nextDisabled, chartsView,
                    modalTransaction, call >>

\* loadData up to the fetch (script.js 187-201)
LoadStart(selectedFile) ==
    /\ PageUsable
    /\ fileSelect' = selectedFile
    /\ Waiting(pending) < MaxPending
    /\ pending' = [pending EXCEPT ![selectedFile] = @ + 1]
    /\ loading' = TRUE
    /\ tableBody' = [kind |-> "loading", message |-> "", rows |-> <<>>]
    /\ UNCHANGED << transactions, filteredTransactions, currentPage, searchBox,
                    currencyFilter, sortBy, prevDisabled, nextDisabled, chartsView,
                    modalTransaction, call >>

\* the rest of applyFilters once the table is rendered, and of loadData
\* after it, for any value of timelineAggregation
AppliesFilters(rendered) ==
    \E unit \in TimelineUnits : Becomes(afterRender(rendered, unit))

CompletesLoad(rendered) ==
    \E unit \in TimelineUnits : Becomes(loadDataCatch(afterRender(rendered, unit), unit))

\* loadData from the response on, the response being OK (script.js 201-230);
\* the responses arrive in any order; tz is the zone of the host
LoadResponse(selectedFile, tz) ==
    /\ pending[selectedFile] > 0
    /\ CompletesLoad(loadDataRender(Dashboard, selectedFile, tz,
                                    searchBox, currencyFilter, sortBy))
    /\ pending' = [pending EXCEPT ![selectedFile] = @ - 1]
    /\ loading' = FALSE
    /\ UNCHANGED << searchBox, currencyFilter, sortBy, modalTransaction, fileSelect, call >>

\* loadData when the fetch is rejected or the status is not OK
\* (script.js 202-204, 221-230)
LoadError(selectedFile) ==
    /\ pending[selectedFile] > 0
    /\ pending' = [pending EXCEPT ![selectedFile] = @ - 1]
    /\ tableBody' = [kind |-> "error", message |-> "HTTP error", rows |-> <<>>]
    /\ loading' = FALSE
    /\ UNCHANGED << transactions, filteredTransactions, currentPage, searchBox,
                    currencyFilter, sortBy, prevDisabled, nextDisabled, chartsView,
                    modalTransaction, fileSelect, call >>

\* the input event of the search box (script.js 94)
SearchInput(text) ==
    /\ PageUsable
    /\ text # searchBox
    /\ searchBox' = text
    /\ AppliesFilters(applyFiltersRender(Dashboard, text, currencyFilter, sortBy))
    /\ UNCHANGED << currencyFilter, sortBy, pending, loading, modalTransaction, fileSelect, call >>

\* the change event of the currency filter (script.js 95)
CurrencyChange(currency) ==
    /\ PageUsable
    /\ currency # currencyFilter
    /\ currencyFilter' = currency
    /\ AppliesFilters(applyFiltersRender(Dashboard, searchBox, currency, sortBy))
    /\ UNCHANGED << searchBox, sortBy, pending, loading, modalTransaction, fileSelect, call >>

\* the change event of the sort selector (script.js 96)
SortChange(key) ==
    /\ PageUsable
    /\ key # sortBy
    /\ sortBy' = key
    /\ AppliesFilters(applyFiltersRender(Dashboard, searchBox, currencyFilter, key))
    /\ UNCHANGED << searchBox, currencyFilter, pending, loading, modalTransaction, fileSelect, call >>

\* a click on the enabled Prev button (script.js 97)
PrevPage ==
    /\ PageUsable
    /\ ~prevDisabled
    /\ Becomes(changePage(Dashboard, -1, searchBox))
    /\ UNCHANGED << searchBox, currencyFilter, sortBy, pending, loading, modalTransaction, fileSelect, call >>

\* a click on the enabled Next button (script.js 98)
NextPage ==
    /\ PageUsable
    /\ ~nextDisabled
    /\ Becomes(changePage(Dashboard, 1, searchBox))
    /\ UNCHANGED << searchBox, currencyFilter, sortBy, pending, loading, modalTransaction, fileSelect, call >>

\* this.transactions.find(t => t.id === transactionId): the positions that
\* hold the id, of which find takes the first
findById(store, transactionId) ==
    {i \in 1..Len(store) : store[i].id = transactionId}

\* a click on the Details button of a displayed row (script.js 166-173,
\* 1483-1521)
OpenTransactionModal(row) ==
    /\ PageUsable
    /\ row \in 1..Len(tableBody.rows)
    /\ LET transactionId == tableBody.rows[row].id
       IN  modalTransaction' =
               IF findById(transactions, transactionId) = {} THEN modalTransaction
               ELSE transactionId
    /\ UNCHANGED << transactions, filteredTransactions, currentPage, searchBox,
                    currencyFilter, sortBy, pending, loading, tableBody, prevDisabled,
                    nextDisabled, chartsView, fileSelect, call >>

\* closeTransactionModal (script.js 1523-1526)
CloseTransactionModal ==
    /\ modalTransaction # -1
    /\ modalTransaction' = -1
    /\ UNCHANGED << transactions, filteredTransactions, currentPage, searchBox,
                    currencyFilter, sortBy, pending, loading, tableBody, prevDisabled,
                    nextDisabled, chartsView, fileSelect, call >>

\* handleCSVExport, handleJSONExport, handlePDFExport (script.js 1529-1572):
\* a download and a notification, no field of the dashboard changes
HandleExport == PageUsable /\ UNCHANGED vars

Next ==
    \/ LoadNoFile
    \/ \E selectedFile \in TableFiles : LoadStart(selectedFile)
    \/ \E selectedFile \in TableFiles, tz \in TZOffsets : LoadResponse(selectedFile, tz)
    \/ \E selectedFile \in TableFiles : LoadError(selectedFile)
    \/ \E text \in SearchTerms : SearchInput(text)
    \/ \E currency \in CurrencyOptions : CurrencyChange(currency)
    \/ \E key \in SortOptions : SortChange(key)
    \/ PrevPage
    \/ NextPage
    \/ \E row \in 1..MaxClickRow : OpenTransactionModal(row)
    \/ CloseTransactionModal
    \/ HandleExport

Spec == Init /\ [][Next]_vars

\* The dashboard with the files of the charts selected: the table has one
\* page and the modal stays closed.
ChartNext ==
    \/ LoadNoFile
    \/ \E selectedFile \in ChartFiles : LoadStart(selectedFile)
    \/ \E selectedFile \in ChartFiles, tz \in TZOffsets : LoadResponse(selectedFile, tz)
    \/ \E selectedFile \in ChartFiles : LoadError(selectedFile)
    \/ \E text \in SearchTerms : SearchInput(text)
    \/ \E currency \in CurrencyOptions : CurrencyChange(currency)

ChartSpec == Init /\ [][ChartNext]_vars

\* ------------------------------------------------------------------------
\* The functions of the page, called one at a time
\* ------------------------------------------------------------------------

\* the fields and elements of the dashboard
page == << transactions, filteredTransactions, currentPage, searchBox, currencyFilter,
           sortBy, fileSelect, pending, loading, tableBody, prevDisabled, nextDisabled, chartsView,
           modalTransaction >>

\* the amounts a converter is called with: -5, 0, 0.5, 1, 30, 240, 100000
Amounts == {-50, 0, 5, 10, 300, 2400, 1000000}

\* the amounts an export converter is called with, whose products with the
\* rates stay within the integers of the checker
ExportAmounts == {a \in Amounts : a \in -50..300}

\* the codes a converter is called with: the valid ones, and others
Codes ==
    {validCurrencies[k] : k \in 1..Len(validCurrencies)}
        \cup {<<>>, <<"x">>, <<"F">>, unknown, <<"t","o","S","t","r","i","n","g">>}

\* the transactions of DocB, as parseXMLData stores them
Samples == parseXMLData(DocB, 0)

\* the longest sequence of transactions a chart is drawn from
MaxViewLen == 2

\* the sequences of up to MaxViewLen different positions of Samples
ViewPositions ==
    {s \in UNION {[1..n -> 1..Len(Samples)] : n \in 0..MaxViewLen} :
        \A i, j \in 1..Len(s) : s[i] = s[j] => i = j}

\* the sequences of transactions a chart is drawn from
Views == {[k \in 1..Len(s) |-> Samples[s[k]]] : s \in ViewPositions}

\* the options of currencyMetric
CurrencyMetrics == {"value", "count"}

\* the largest number of buckets of the histogram
MaxBuckets == 3

\* the options of histogramCurrency
HistogramCurrencies == {all, <<"f">>, <<"g","r">>}

\* the options of seasonalView
SeasonalViews == {"monthly", "quarterly", "weekday"}

\* a call of convertToFlorin
ConvertToFlorin(amount, currency) ==
    /\ call = noCall
    /\ call' = [fn |-> "convertToFlorin", amount |-> amount, currency |-> currency,
                result |-> convertToFlorin(amount, currency)]
    /\ UNCHANGED page

\* a call of ExportManager.convertToFlorins
ExportConvertToFlorins(amount, currency) ==
    /\ call = noCall
    /\ call' = [fn |-> "ExportManager.convertToFlorins", amount |-> amount,
                currency |-> currency,
                result |-> ExportManager_convertToFlorins(amount, currency)]
    /\ UNCHANGED page

\* a call of PDFExporter.convertToFlorins
PDFConvertToFlorins(amount, currency) ==
    /\ call = noCall
    /\ call' = [fn |-> "PDFExporter.convertToFlorins", amount |-> amount,
                currency |-> currency,
                result |-> PDFExporter_convertToFlorins(amount, currency)]
    /\ UNCHANGED page

\* a call of aggregateTimelineData on a host in the zone tz
AggregateTimelineData(view, unit, tz) ==
    /\ call = noCall
    /\ call' = [fn |-> "aggregateTimelineData", transactions |-> view, unit |-> unit,
                tz |-> tz, result |-> aggregateTimelineData(view, unit, tz)]
    /\ UNCHANGED page

\* a call of aggregateCurrencyData
AggregateCurrencyData(view, metric) ==
    /\ call = noCall
    /\ call' = [fn |-> "aggregateCurrencyData", transactions |-> view, metric |-> metric,
                result |-> aggregateCurrencyData(view, metric)]
    /\ UNCHANGED page

\* a call of updateHistogramChart
UpdateHistogramChart(view, bucketCount, selectedCurrency) ==
    /\ call = noCall
    /\ call' = [fn |-> "updateHistogramChart", transactions |-> view,
                bucketCount |-> bucketCount, selectedCurrency |-> selectedCurrency,
                result |-> updateHistogramChart(view, bucketCount, selectedCurrency)]
    /\ UNCHANGED page

\* a call of updateSeasonalChart on a host in the zone tz
UpdateSeasonalChart(view, seasonalView, tz) ==
    /\ call = noCall
    /\ call' = [fn |-> "updateSeasonalChart", transactions |-> view,
                seasonalView |-> seasonalView, tz |-> tz,
                result |-> updateSeasonalChart(view, seasonalView, tz)]
    /\ UNCHANGED page

\* the call has returned
\* the pools of the modal and the transaction it shows
Pools == {Samples} \cup Views

\* the score of each element of the pool, as the callback computes it; the
\* callback leaves the transaction of the modal before it scores
scoresOf(pool, target) ==
    [k \in 1..Len(pool) |->
        IF k = target THEN 0
        ELSE relatedScore(pool[target], pool[k],
                          extractEntitiesFromText(pool[target].entry))]

LoadRelatedTab(pool, target) ==
    /\ call = noCall
    /\ call' = [fn |-> "loadRelatedTab", transactions |-> pool, target |-> target,
                scores |-> scoresOf(pool, target),
                result |-> loadRelatedTab(pool, target)]
    /\ UNCHANGED page

\* exportToJSON on a filtered view, as handleJSONExport calls it (script.js
\* 1560), and on the empty list
ExportToJSON(view) ==
    /\ call = noCall
    /\ call' = [fn |-> "exportToJSON", transactions |-> view, result |-> exportToJSON(view)]
    /\ UNCHANGED page

\* records of one amount in f: the text of the test of the entities
\* (part_000 88) without its last words, a name twice, a name next to a
\* word of the stop list, and texts with the keywords of income, of income
\* and expense, and of expense
Records ==
    { [entry |-> <<"I","t","e","m"," ","d","e","n"," ",".","2","8","."," ","M","a","i","i",","," ","M","a","r","t","i","n"," ","Ö","d","e","r"," ","v","o","n"," ","A","i","t","e","n","p","a","c","h">>,
          when  |-> <<"1","5","5","7","-","0","5","-","2","8">>,
          money |-> <<[quantity |-> <<"1","8">>, hasUnit |-> TRUE, resource |-> <<"u","#","f">>]>>],
  
        [entry |-> <<"H","a","n","s"," ","u","n","d"," ","H","a","n","s">>,
          when  |-> <<"1","5","5","7","-","0","5","-","2","8">>,
          money |-> <<[quantity |-> <<"5">>, hasUnit |-> TRUE, resource |-> <<"u","#","f">>]>>],
  
        [entry |-> <<"A","n","n","o"," ","H","a","n","s">>,
          when  |-> <<"1","5","5","7","-","0","5","-","2","8">>,
          money |-> <<[quantity |-> <<"1","8">>, hasUnit |-> TRUE, resource |-> <<"u","#","f">>]>>],
  
        [entry |-> <<"M","a","r","t","i","n"," ","r","e","c","e","p","i","m","u","s">>,
          when  |-> <<"1","5","5","7","-","0","5","-","2","8">>,
          money |-> <<[quantity |-> <<"1","8">>, hasUnit |-> TRUE, resource |-> <<"u","#","f">>]>>],
  
        [entry |-> <<"d","a","b","i","m","u","s"," ","r","e","c","e","p","i","m","u","s"," ","A","p","r","i","l","i","s">>,
          when  |-> <<"1","5","5","7","-","0","5","-","2","8">>,
          money |-> <<[quantity |-> <<"2">>, hasUnit |-> TRUE, resource |-> <<"u","#","f">>]>>],
  
        [entry |-> <<"H","a","n","s"," ","d","a","b","i","m","u","s">>,
          when  |-> <<"1","5","5","7","-","0","5","-","2","8">>,
          money |-> <<[quantity |-> <<"1","8">>, hasUnit |-> TRUE, resource |-> <<"u","#","f">>]>>] }

\* the documents parsed: one or two of the records, in any order
MaxRecords == 2
Documents == UNION {[1..n -> Records] : n \in 1..MaxRecords}

\* parseXMLData on an empty store (script.js 233-318)
ParseXMLData(xmlDoc, tz) ==
    /\ call = noCall
    /\ call' = [fn |-> "parseXMLData", xmlDoc |-> xmlDoc, result |-> parseXMLData(xmlDoc, tz)]
    /\ UNCHANGED page

\* ------------------------------------------------------------------------
\* The critical logs of the logger
\* ------------------------------------------------------------------------

\* the critical logs kept in localStorage (logger.js 128-130)
maxCriticalLogs == 100

\* getNumericLevel (logger.js 118-121)
getNumericLevel(level) ==
    CASE level = "debug" -> 4
      [] level = "info"  -> 3
      [] level = "warn"  -> 2
      [] level = "error" -> 1
      [] OTHER           -> 0

\* storeCriticalLog as it would be if the newest entries were cut off
storeCriticalLogKeepingFirst(stored, logEntry, setItemThrows) ==
    IF setItemThrows THEN stored
    ELSE LET pushed == Append(stored, logEntry)
         IN  IF Len(pushed) > maxCriticalLogs
             THEN SubSeq(pushed, 1, maxCriticalLogs)
             ELSE pushed

\* storeCriticalLog (logger.js 123-137): what the item aldersbach_logs
\* holds after the call, stored being what it held before.  When setItem
\* throws (the quota is used up, the storage is disabled) the catch block
\* leaves the item as it was.
storeCriticalLog(stored, logEntry, setItemThrows) ==
    IF setItemThrows THEN stored
    ELSE LET pushed == Append(stored, logEntry)
         IN  IF Len(pushed) > maxCriticalLogs
             THEN SubSeq(pushed, Len(pushed) - maxCriticalLogs + 1, Len(pushed))
             ELSE pushed

\* log (logger.js 76-94): the item aldersbach_logs after the call; the
\* message and the data of the entry are left out
log(logLevel, stored, level, timestamp, setItemThrows) ==
    IF getNumericLevel(level) > logLevel THEN stored
    ELSE IF level = "error" \/ level = "warn"
    THEN storeCriticalLog(stored, [level |-> level, timestamp |-> timestamp], setItemThrows)
    ELSE stored

\* the calls of info, warn and error (logger.js 100-112) one after the
\* other, the k-th of them at the time k after the time of the first
RECURSIVE logCalls(_, _, _, _)
logCalls(logLevel, stored, calls, timestamp) ==
    IF calls = <<>> THEN stored
    ELSE logCalls(logLevel,
                  log(logLevel, stored, Head(calls).level, timestamp, Head(calls).setItemThrows),
                  Tail(calls), timestamp + 1)

\* the values of getLogLevel (logger.js 59-71)
LogLevels == 1..4

\* the entries an earlier session has left in localStorage
StoredBefore == 99

earlierLogs == [k \in 1..StoredBefore |-> [level |-> "warn", timestamp |-> k]]

\* the log calls of a session: the level of each, and whether setItem throws
MaxLogCalls == 3

LogCall == [level : {"info", "warn", "error"}, setItemThrows : BOOLEAN]

LogCallSequences == UNION {[1..n -> LogCall] : n \in 0..MaxLogCalls}

\* the log calls of a session
LogCalls(logLevel, stored, calls) ==
    /\ call = noCall
    /\ call' = [fn |-> "log", logLevel |-> logLevel, stored |-> stored, calls |-> calls,
                result |-> logCalls(logLevel, stored, calls, Len(stored) + 1)]
    /\ UNCHANGED page

Return ==
    /\ call # noCall
    /\ call' = noCall
    /\ UNCHANGED page

CallNext ==
    \/ \E amount \in Amounts, currency \in Codes : ConvertToFlorin(amount, currency)
    \/ \E amount \in ExportAmounts, currency \in Codes :
          ExportConvertToFlorins(amount, currency)
    \/ \E amount \in ExportAmounts, currency \in Codes :
          PDFConvertToFlorins(amount, currency)
    \/ \E view \in Views, unit \in TimelineUnits, tz \in TZOffsets :
          AggregateTimelineData(view, unit, tz)
    \/ \E view \in Views, metric \in CurrencyMetrics : AggregateCurrencyData(view, metric)
    \/ \E view \in Views, bucketCount \in 1..MaxBuckets, selectedCurrency \in HistogramCurrencies :
          UpdateHistogramChart(view, bucketCount, selectedCurrency)
    \/ \E view \in Views, seasonalView \in SeasonalViews, tz \in TZOffsets :
          UpdateSeasonalChart(view, seasonalView, tz)
    \/ \E pool \in Pools : \E target \in 1..Len(pool) : LoadRelatedTab(pool, target)
    \/ \E view \in Views : ExportToJSON(view)
    \/ \E xmlDoc \in Documents, tz \in TZOffsets : ParseXMLData(xmlDoc, tz)
    \/ \E logLevel \in LogLevels, stored \in {<<>>, earlierLogs}, calls \in LogCallSequences :
          LogCalls(logLevel, stored, calls)
    \/ Return

CallSpec == Init /\ [][CallNext]_vars

\* ------------------------------------------------------------------------
\* Properties
\* ------------------------------------------------------------------------

\* the year a stored date text begins with
YearOf(date) == DigitsToNat(SubSeq(date, 1, 4))

\* C1: every transaction of the store has a date that is absent or a date
\* whose year lies in [1200, 1800], whichever path of validateAndParseDate
\* produced it.
DateInRange ==
    \A i \in 1..Len(transactions) :
        \/ transactions[i].date = <<>>
        \/ YearOf(transactions[i].date) \in 1200..1800

\* the currency codes the parser knows
KnownCurrencies == { <<"f">>, <<"s">>, <<"d">>, <<"g","r">>, <<"t">>, <<"l">>, <<"p">> }

\* a Money element passes the two checks: its quantity is a number from 0
\* to 100000 and its unit names a known currency
MoneyPasses(money) ==
    /\ trim(money.quantity) # <<>>
    /\ ~parseFloat(trim(money.quantity)).nan
    /\ parseFloat(trim(money.quantity)).v \in 0..(100000 * Scale)
    /\ money.hasUnit
    /\ splitPop(money.resource) \in KnownCurrencies

\* C2: every amount kept by a stored transaction is from 0 to 100000 in a
\* known currency, and the amounts kept are as many as the Money elements
\* of the record that pass the two checks: a failing element is dropped.
AmountsValid ==
    \A i \in 1..Len(transactions) :
        /\ \A k \in 1..Len(transactions[i].amounts) :
              /\ transactions[i].amounts[k].amount \in 0..(100000 * Scale)
              /\ transactions[i].amounts[k].currency \in KnownCurrencies
        /\ Len(transactions[i].amounts)
              = Len(SelectSeq(transactions[i].rawXML.money, MoneyPasses))

\* C2 witness: the store holds an amount at each end of the range, a
\* record of which some Money elements were kept and some dropped, and a
\* record all of whose elements were dropped
AmountsValidWitness ==
    /\ \A bound \in {0, 100000 * Scale} :
          \E i \in 1..Len(transactions) : \E k \in 1..Len(transactions[i].amounts) :
              transactions[i].amounts[k].amount = bound
    /\ \E i \in 1..Len(transactions) :
          /\ transactions[i].amounts # <<>>
          /\ Len(transactions[i].amounts) < Len(transactions[i].rawXML.money)
    /\ \E i \in 1..Len(transactions) :
          transactions[i].amounts = <<>> /\ transactions[i].rawXML.money # <<>>

\* the sum of convertToFlorin over the amounts from position k on
RECURSIVE FlorinSum(_, _)
FlorinSum(amounts, k) ==
    IF k > Len(amounts) THEN 0
    ELSE convertToFlorin(amounts[k].amount, amounts[k].currency).v + FlorinSum(amounts, k + 1)

\* C3: in every state the totalFlorinValue of each stored transaction is the
\* sum of convertToFlorin over the amounts it keeps.
\* No handler has changed either since the parse: they are what the Money
\* elements of the record yield.
BaseValueIsSum ==
    \A i \in 1..Len(transactions) :
        /\ transactions[i].totalFlorinValue = FlorinSum(transactions[i].amounts, 1)
        /\ LET kept == SelectSeq(transactions[i].rawXML.money, MoneyPasses)
           IN  transactions[i].amounts
                   = [k \in 1..Len(kept) |->
                         [amount   |-> parseFloat(trim(kept[k].quantity)).v,
                          currency |-> splitPop(kept[k].resource)]]

\* C3 witness: after a load and a change of the filters, a stored transaction
\* with two kept amounts and a dropped one
BaseValueIsSumWitness ==
    /\ searchBox # <<>> /\ currencyFilter # <<>> /\ sortBy # "date"
    /\ \E i \in 1..Len(transactions) :
          /\ Len(transactions[i].amounts) = 2
          /\ Len(transactions[i].rawXML.money) > 2
          /\ transactions[i].totalFlorinValue > 0

\* the records the transactions of the store were built from
StoredRecords == [i \in 1..Len(transactions) |-> transactions[i].rawXML]

\* the text field of a record is non-empty after trimming
HasText(record) == trim(record.entry) # <<>>

Date2400 == <<"2","4","0","0","-","1","2","-","2","4">>

StoredFrom(f) ==
    \A i \in 1..Len(transactions) :
        /\ transactions[i].originalId \in 1..Len(Document(f))
        /\ transactions[i].rawXML = Document(f)[transactions[i].originalId]

\* processing the record fails somewhere: it has no text, or one of its
\* Money elements does not pass the checks
Fails(record) ==
    \/ ~HasText(record)
    \/ \E k \in 1..Len(record.money) : ~MoneyPasses(record.money[k])

\* C5: a failing record or Money element does not end the load.  The store
\* comes from a document every record of which that has text and follows a
\* failing record is stored; every stored transaction is a whole one, with
\* the trimmed text of its record; and the error the table may show after
\* a load is never that of an empty document.
LoadNeverAborts ==
    /\ \E f \in Files :
          /\ StoredFrom(f)
          /\ \A n \in 1..Len(Document(f)) :
                (HasText(Document(f)[n]) /\ \E m \in 1..(n - 1) : Fails(Document(f)[m]))
                    => \E i \in 1..Len(transactions) : transactions[i].originalId = n
    /\ \A i \in 1..Len(transactions) :
          /\ transactions[i].entry = trim(transactions[i].rawXML.entry)
          /\ transactions[i].entry # <<>>
    /\ tableBody.message \in {"SyntaxError", "RangeError", "TypeError"} => transactions # <<>>

\* C5 witness: the store holds a transaction whose record follows a record
\* without text and a record with a failing Money element, and the table
\* shows its rows
LoadNeverAbortsWitness ==
    /\ tableBody.kind = "rows"
    /\ \E f \in Files :
          /\ StoredFrom(f)
          /\ \E i \in 1..Len(transactions) :
                LET n == transactions[i].originalId
                IN  /\ \E m \in 1..(n - 1) : ~HasText(Document(f)[m])
                    /\ \E m \in 1..(n - 1) :
                          /\ HasText(Document(f)[m])
                          /\ Fails(Document(f)[m])

\* C6: the ids of the stored transactions increase strictly in store order,
\* so they are pairwise distinct, and an id resolves to at most one
\* transaction, be it the id of a stored transaction or of a displayed row.
IdsIncrease ==
    /\ \A i \in 1..Len(transactions) : \A j \in (i + 1)..Len(transactions) :
          transactions[i].id < transactions[j].id
    /\ \A i \in 1..Len(transactions) :
          Cardinality(findById(transactions, transactions[i].id)) = 1
    /\ \A r \in 1..Len(tableBody.rows) :
          Cardinality(findById(transactions, tableBody.rows[r].id)) <= 1

\* C6 witness: records were skipped by the load (an originalId is ahead of
\* its id) and the modal shows a transaction found by its id
IdsIncreaseWitness ==
    /\ modalTransaction # -1
    /\ findById(transactions, modalTransaction) # {}
    /\ \E i \in 1..Len(transactions) : transactions[i].originalId > transactions[i].id + 1

\* C7: the store is replaced all-or-nothing.  A step that changes
\* transactions is the arrival of the response of a pending load and leaves
\* the whole collection of that document; the step of a load that fails
\* leaves transactions and filteredTransactions as they were.
AllOrNothing ==
    [][ /\ transactions' # transactions =>
              \E file \in Files :
                  /\ pending[file] > 0
                  /\ pending' = [pending EXCEPT ![file] = @ - 1]
                  /\ \E tz \in TZOffsets :
                        transactions' = ParsedDocuments[file][tz]
        /\ (Waiting(pending') < Waiting(pending) /\ tableBody'.message = "HTTP error")
              => UNCHANGED << transactions, filteredTransactions >> ]_vars

\* C7 witness: the modal was opened on a row while a load was in progress,
\* that load failed, and the collection and its view are there
AllOrNothingWitness ==
    /\ modalTransaction # -1
    /\ tableBody.message = "HTTP error"
    /\ transactions # <<>>
    /\ filteredTransactions # <<>>

\* a sorts before b or with it, by date descending
DateNotAfter(a, b) == localeCompare(a.date, b.date) >= 0

\* C8: with no search text, no currency and the sort key date, the view
\* holds every stored transaction exactly once, by date descending, the
\* transactions without a date after all the dated ones.
DateSortAbsentLast ==
    (searchBox = <<>> /\ currencyFilter = <<>> /\ sortBy = "date") =>
        /\ Len(filteredTransactions) = Len(transactions)
        /\ \A i \in 1..Len(transactions) :
              Cardinality({j \in 1..Len(filteredTransactions) :
                              filteredTransactions[j] = transactions[i]}) = 1
        /\ \A i \in 1..Len(filteredTransactions) :
              \A j \in (i + 1)..Len(filteredTransactions) :
                  IF filteredTransactions[i].date = <<>>
                  THEN filteredTransactions[j].date = <<>>
                  ELSE \/ filteredTransactions[j].date = <<>>
                       \/ DateNotAfter(filteredTransactions[i], filteredTransactions[j])

\* the search predicate of the claim: the text or a name contains the
\* search text, case-insensitively
MatchesSearch(t) ==
    \/ searchBox = <<>>
    \/ includes(toLowerCase(t.entry), toLowerCase(searchBox))
    \/ \E p \in 1..Len(t.people) : includes(toLowerCase(t.people[p]), toLowerCase(searchBox))

\* the currency predicate of the claim: a kept amount has the currency
MatchesCurrency(t) ==
    \/ currencyFilter = <<>>
    \/ \E k \in 1..Len(t.amounts) : t.amounts[k].currency = currencyFilter

\* C9: the view holds exactly the stored transactions that satisfy the
\* search predicate and the currency predicate, each once.
ViewIsConjunction ==
    /\ \A i \in 1..Len(transactions) :
          (MatchesSearch(transactions[i]) /\ MatchesCurrency(transactions[i]))
              <=> \E j \in 1..Len(filteredTransactions) :
                      filteredTransactions[j] = transactions[i]
    /\ \A j \in 1..Len(filteredTransactions) :
          /\ \E i \in 1..Len(transactions) : filteredTransactions[j] = transactions[i]
          /\ \A k \in (j + 1)..Len(filteredTransactions) :
                filteredTransactions[k] # filteredTransactions[j]

\* C9 witness: both filters are set; a transaction matches both, one the
\* search alone through the other case of a letter, one the currency alone
ViewIsConjunctionWitness ==
    /\ searchBox # <<>> /\ currencyFilter # <<>>
    /\ filteredTransactions # <<>>
    /\ \E i \in 1..Len(transactions) :
          /\ MatchesSearch(transactions[i]) /\ ~MatchesCurrency(transactions[i])
          /\ ~includes(transactions[i].entry, toLowerCase(searchBox))
    /\ \E i \in 1..Len(transactions) :
          ~MatchesSearch(transactions[i]) /\ MatchesCurrency(transactions[i])

\* every entry of the view is a stored transaction, and none occurs twice
ViewOfStore ==
    \A j \in 1..Len(filteredTransactions) :
        /\ \E i \in 1..Len(transactions) : filteredTransactions[j] = transactions[i]
        /\ \A k \in (j + 1)..Len(filteredTransactions) :
              filteredTransactions[k] # filteredTransactions[j]

\* C10: no filter or sort operation changes the store: transactions changes
\* in no step but the arrival of a load's response, and after every step
\* each entry of the view is a stored transaction that occurs once in it.
StoreUntouched ==
    [][ /\ transactions' # transactions => Waiting(pending') < Waiting(pending)
        /\ ViewOfStore' ]_vars

\* C10 witness: with no filter set the view is sorted by entry, in another
\* order than the store, which is in parse order
StoreUntouchedWitness ==
    /\ searchBox = <<>> /\ currencyFilter = <<>> /\ sortBy = "entry"
    /\ Len(filteredTransactions) = Len(transactions)
    /\ filteredTransactions # transactions
    /\ \A i \in 1..Len(transactions) : transactions[i].id = i - 1

\* the number n in the units of convertToFlorin
Florins(n) == [nan |-> FALSE, v |-> n * FlorinUnit * Scale]

\* the rate of a known code as the divisor of the florin: f 1, s 1/30,
\* d 1/240, gr 1/20, t 1/8, l 1/4, p 1/240
PerFlorin(code) ==
    CASE code = <<"f">>     -> 1
      [] code = <<"s">>     -> 30
      [] code = <<"d">>     -> 240
      [] code = <<"g","r">> -> 20
      [] code = <<"t">>     -> 8
      [] code = <<"l">>     -> 4
      [] code = <<"p">>     -> 240

\* C11: convertToFlorin(amount, code) is amount times the fixed rate of the
\* code for every known code, so 240 d and 30 s are 1 florin each, and it is
\* 0 for every code outside the known set.
ConversionByRate ==
    call.fn = "convertToFlorin" =>
        /\ isValidCurrency(call.currency) =>
              /\ ~call.result.nan
              /\ call.result.v * PerFlorin(call.currency) = call.amount * FlorinUnit
        /\ (call.amount = 240 * Scale /\ call.currency = <<"d">>) => call.result = Florins(1)
        /\ (call.amount = 30 * Scale /\ call.currency = <<"s">>) => call.result = Florins(1)
        /\ ~isValidCurrency(call.currency) => call.result = Florins(0)

\* the converters of the exports
ExportConverters == {"ExportManager.convertToFlorins", "PDFExporter.convertToFlorins"}

\* a unit that both FlorinUnit and ExportUnit divide
CommonUnit == 3 * ExportUnit

\* the value v of an export converter is the value w of convertToFlorin
SameValue(v, w) ==
    /\ v.nan = w.nan
    /\ v.v * (CommonUnit \div ExportUnit) = w.v * (CommonUnit \div FlorinUnit)

\* C12: for every amount and every known code the converter of the CSV/JSON
\* export and the converter of the PDF report return the value that the
\* converter of the dashboard returns.
ConvertersAgree ==
    (call.fn \in ExportConverters /\ isValidCurrency(call.currency)) =>
        SameValue(call.result, convertToFlorin(call.amount, call.currency))

\* the calendar fields of a stored date text
DateFields(date) ==
    [valid |-> TRUE, y |-> DigitsToNat(SubSeq(date, 1, 4)), m |-> DigitsToNat(SubSeq(date, 6, 7)),
     d |-> DigitsToNat(SubSeq(date, 9, 10)), h |-> 0, mi |-> 0]

\* the start of the period of a stored date: the day itself, the Sunday on
\* or before it, the first day of its month, the first day of its year
PeriodStart(date, unit) ==
    CASE unit = "day"   -> date
      [] unit = "week"  -> toISODate(daysBefore(DateFields(date),
                                                weekDay(DateFields(date).y, DateFields(date).m,
                                                        DateFields(date).d)))
      [] unit = "month" -> SubSeq(date, 1, 7) \o <<"-","0","1">>
      [] unit = "year"  -> SubSeq(date, 1, 4) \o <<"-","0","1","-","0","1">>

\* the sum of totalFlorinValue over the first k transactions whose period
\* starts at key
RECURSIVE PeriodTotal(_, _, _, _)
PeriodTotal(list, k, unit, key) ==
    IF k = 0 THEN 0
    ELSE PeriodTotal(list, k - 1, unit, key)
           + (IF list[k].date # <<>> /\ PeriodStart(list[k].date, unit) = key
              THEN list[k].totalFlorinValue ELSE 0)

\* the period starts of the dated transactions
PeriodStarts(list, unit) ==
    {PeriodStart(list[i].date, unit) : i \in {j \in 1..Len(list) : list[j].date # <<>>}}

\* C13: aggregateTimelineData returns one bucket for each period start of
\* a dated transaction and no other bucket, each bucket holding the sum of
\* totalFlorinValue of the dated transactions of its period, the buckets in
\* strictly ascending order of their keys.
TimelineBuckets ==
    call.fn = "aggregateTimelineData" =>
        /\ ~call.result.threw
        /\ LET data == call.result.value
           IN  /\ {data[k].x : k \in 1..Len(data)} = PeriodStarts(call.transactions, call.unit)
               /\ \A k \in 1..Len(data) :
                     data[k].y = PeriodTotal(call.transactions, Len(call.transactions),
                                             call.unit, data[k].x)
               /\ \A k \in 1..(Len(data) - 1) : localeCompare(data[k].x, data[k + 1].x) < 0

\* the amounts of a sequence of transactions, as a bag of [amount, currency]
RECURSIVE AmountsOf(_, _)
AmountsOf(list, k) ==
    IF k = 0 THEN <<>> ELSE AmountsOf(list, k - 1) \o list[k].amounts

\* the base-converted value of the first k of the amounts that have the
\* code, and their number
RECURSIVE CodeValue(_, _, _)
CodeValue(amounts, k, code) ==
    IF k = 0 THEN 0
    ELSE CodeValue(amounts, k - 1, code)
           + (IF amounts[k].currency = code
              THEN (amounts[k].amount * FlorinUnit) \div PerFlorin(code) ELSE 0)

CodeCount(amounts, code) == Cardinality({k \in 1..Len(amounts) : amounts[k].currency = code})

\* C14: aggregateCurrencyData tallies every amount whose currency is one of
\* f, s, d, gr, t, l, p under its own code: with the metric value the entry
\* is the sum of the base-converted amounts, with the metric count the
\* number of the amounts; no amount with a known code is left out.
CurrencyTallies ==
    call.fn = "aggregateCurrencyData" =>
        LET amounts == AmountsOf(call.transactions, Len(call.transactions))
        IN  \A k \in 1..Len(validCurrencies) :
                CodeCount(amounts, validCurrencies[k]) > 0 =>
                    /\ validCurrencies[k] \in DOMAIN call.result
                    /\ call.result[validCurrencies[k]] =
                          IF call.metric = "value"
                          THEN CodeValue(amounts, Len(amounts), validCurrencies[k])
                          ELSE CodeCount(amounts, validCurrencies[k])

\* the amounts of the selected currency in the transactions of the call
HistogramInput ==
    SelectSeq(AmountsOf(call.transactions, Len(call.transactions)),
              LAMBDA a : call.selectedCurrency = all \/ a.currency = call.selectedCurrency)

\* the positions of the positive amounts
PositivePositions == {k \in 1..Len(HistogramInput) : HistogramInput[k].amount > 0}

\* the least and the largest positive amount
LeastPositive ==
    CHOOSE a \in {HistogramInput[k].amount : k \in PositivePositions} :
        \A k \in PositivePositions : a <= HistogramInput[k].amount
LargestPositive ==
    CHOOSE a \in {HistogramInput[k].amount : k \in PositivePositions} :
        \A k \in PositivePositions : a >= HistogramInput[k].amount

\* bin i of n, from 1: the interval from least + (i - 1) * width to least +
\* i * width, width being (largest - least) / n, without its end unless
\* i = n
InBin(a, i, n) ==
    /\ a * n >= LeastPositive * n + (i - 1) * (LargestPositive - LeastPositive)
    /\ \/ a * n < LeastPositive * n + i * (LargestPositive - LeastPositive)
       \/ i = n /\ a * n = LeastPositive * n + i * (LargestPositive - LeastPositive)

\* the sum of the first k entries of a sequence of numbers
RECURSIVE SumOfFirst(_, _)
SumOfFirst(counts, k) == IF k = 0 THEN 0 ELSE SumOfFirst(counts, k - 1) + counts[k]

\* C15: the histogram counts every positive amount in exactly one of the N
\* bins, a bin holding the amounts of its interval (the last bin with the
\* largest amount), so the counts add up to the number of positive amounts,
\* also when all amounts are equal; without a positive amount the labels
\* and the counts are empty.
HistogramCountsAll ==
    call.fn = "updateHistogramChart" =>
        IF PositivePositions = {}
        THEN call.result.labels = <<>> /\ call.result.data = <<>>
        ELSE /\ Len(call.result.data) = call.bucketCount
             /\ Len(call.result.labels) = call.bucketCount
             /\ \A k \in PositivePositions :
                   Cardinality({i \in 1..call.bucketCount :
                                   InBin(HistogramInput[k].amount, i, call.bucketCount)}) = 1
             /\ \A i \in 1..call.bucketCount :
                   call.result.data[i] =
                       Cardinality({k \in PositivePositions :
                                       InBin(HistogramInput[k].amount, i, call.bucketCount)})
             /\ SumOfFirst(call.result.data, call.bucketCount) = Cardinality(PositivePositions)

\* a histogram of several bins has been built from several positive
\* amounts that are all equal, next to an amount of 0
HistogramCountsAllWitness ==
    /\ call.fn = "updateHistogramChart"
    /\ call.bucketCount > 1
    /\ Cardinality(PositivePositions) > 1
    /\ Cardinality(PositivePositions) < Len(HistogramInput)
    /\ LeastPositive = LargestPositive
    /\ call.result.data[call.bucketCount] = Cardinality(PositivePositions)

\* the bucket of a stored date on an axis, from 1: its calendar month, the
\* quarter of that month, its day of the week with Sunday first
SeasonOf(date, axis) ==
    CASE axis = "monthly"   -> DateFields(date).m
      [] axis = "quarterly" -> (DateFields(date).m - 1) \div 3 + 1
      [] axis = "weekday"   -> weekDay(DateFields(date).y, DateFields(date).m,
                                       DateFields(date).d) + 1

\* the number of buckets of an axis
SeasonCount(axis) ==
    CASE axis = "monthly" -> 12 [] axis = "quarterly" -> 4 [] axis = "weekday" -> 7

\* the positions of the dated transactions of a list, and of those in the
\* bucket i of an axis
DatedPositions(list) == {k \in 1..Len(list) : list[k].date # <<>>}
SeasonMembers(list, axis, i) == {k \in DatedPositions(list) : SeasonOf(list[k].date, axis) = i}

\* the sum of totalFlorinValue over the positions P of a list
RECURSIVE ValueOver(_, _)
ValueOver(list, P) ==
    IF P = {} THEN 0
    ELSE LET k == CHOOSE j \in P : TRUE
         IN  list[k].totalFlorinValue + ValueOver(list, P \ {k})

\* C16: the seasonal breakdown returns the full fixed set of buckets of its
\* axis in fixed order whatever the input; a bucket without transactions
\* has count 0 and average 0, another bucket the mean totalFlorinValue of
\* its members, and the counts add up to the number of dated transactions.
SeasonalBuckets ==
    call.fn = "updateSeasonalChart" =>
        /\ ~call.result.threw
        /\ LET series == call.result.value
               n == SeasonCount(call.seasonalView)
           IN  /\ series.labels = seasonalNames(call.seasonalView)
               /\ Len(series.labels) = n /\ Len(series.counts) = n /\ Len(series.avgValues) = n
               /\ SumOfFirst(series.counts, n) = Cardinality(DatedPositions(call.transactions))
               /\ \A i \in 1..n :
                     LET members == SeasonMembers(call.transactions, call.seasonalView, i)
                     IN  /\ series.counts[i] = Cardinality(members)
                         /\ members = {} => series.avgValues[i].num = 0
                         /\ series.avgValues[i].num * Cardinality(members) =
                               series.avgValues[i].den * ValueOver(call.transactions, members)

\* ------------------------------------------------------------------------
\* The related transactions
\* ------------------------------------------------------------------------

\* the positions of the list of a call of loadRelatedTab
RelatedPositions == {call.result[i] : i \in 1..Len(call.result)}

\* C17: the related list computed by loadRelatedTab never holds the
\* transaction of the modal and never holds a candidate whose score is 0.
RelatedExcludes ==
    call.fn = "loadRelatedTab" =>
        \A k \in RelatedPositions : k # call.target /\ call.scores[k] > 0

\* a list that is not empty, of a pool with a candidate of score 0
RelatedExcludesWitness ==
    /\ call.fn = "loadRelatedTab"
    /\ call.result # <<>>
    /\ \E k \in 1..Len(call.transactions) : k # call.target /\ call.scores[k] = 0

\* C18: the related list consists of {transaction, score} entries in the
\* order of their scores, the highest first and equal scores in the order
\* of the pool, cut to the first 5: no candidate left out has a higher
\* score than one of the list.
RelatedRanked ==
    call.fn = "loadRelatedTab" =>
        /\ \A k \in RelatedPositions :
              {"transaction", "score"} \subseteq DOMAIN call.transactions[k]
        /\ \A i, j \in 1..Len(call.result) :
              i < j => \/ call.scores[call.result[i]] > call.scores[call.result[j]]
                       \/ /\ call.scores[call.result[i]] = call.scores[call.result[j]]
                          /\ call.result[i] < call.result[j]
        /\ \A k \in 1..Len(call.transactions) :
              (k # call.target /\ k \notin RelatedPositions) =>
                  \A m \in RelatedPositions : call.scores[k] <= call.scores[m]
        /\ Len(call.result) <= topN

\* the transaction has a date of the calendar
Dated(t) == t.date # <<>> /\ DateParse(t.date, 0).valid

\* two dated transactions are at most n days apart
DaysApart(t, u, n) ==
    /\ Dated(t) /\ Dated(u)
    /\ daysFromCivil(DateFields(t.date).y, DateFields(t.date).m, DateFields(t.date).d)
         - daysFromCivil(DateFields(u.date).y, DateFields(u.date).m, DateFields(u.date).d)
         \in (0 - n)..n

\* the smaller of two values above 0 is more than 0.8 of the larger
ValuesClose(t, u) ==
    /\ t.totalFlorinValue # 0 /\ u.totalFlorinValue # 0
    /\ \/ t.totalFlorinValue <= u.totalFlorinValue /\ 10 * t.totalFlorinValue > 8 * u.totalFlorinValue
       \/ u.totalFlorinValue <= t.totalFlorinValue /\ 10 * u.totalFlorinValue > 8 * t.totalFlorinValue

CurrenciesOf(t) == {t.amounts[i].currency : i \in 1..Len(t.amounts)}

\* the text holds no person, place or commodity
NoEntities(t) ==
    /\ extractEntitiesFromText(t.entry).people = <<>>
    /\ extractEntitiesFromText(t.entry).places = <<>>
    /\ extractEntitiesFromText(t.entry).commodities = <<>>

SumOfFactors(t, u) ==
    (IF DaysApart(t, u, 7) THEN 2 ELSE 0) + (IF DaysApart(t, u, 1) THEN 3 ELSE 0)
      + (IF ValuesClose(t, u) THEN 2 ELSE 0)
      + (IF CurrenciesOf(t) \cap CurrenciesOf(u) # {} THEN 1 ELSE 0)

\* two transactions of one day with the values 100 and 82
SameDay100And82(t, u) ==
    /\ DaysApart(t, u, 0)
    /\ {t.totalFlorinValue, u.totalFlorinValue} = {Florins(100).v, Florins(82).v}

\* C19: for a target and a candidate without extracted entities the score
\* is the sum of 2 for dates at most 7 days apart, 3 more for dates at most
\* 1 day apart, 2 for values above 0 with smaller/larger > 0.8 and 1 for a
\* shared currency code; two transactions of one day with the values 100
\* and 82 score at least 7.
ScoreAdditive ==
    call.fn = "loadRelatedTab" =>
        \A k \in 1..Len(call.transactions) :
            k # call.target =>
              /\ (NoEntities(call.transactions[call.target]) /\ NoEntities(call.transactions[k]))
                    => call.scores[k] = SumOfFactors(call.transactions[call.target],
                                                     call.transactions[k])
              /\ SameDay100And82(call.transactions[call.target], call.transactions[k])
                    => call.scores[k] >= 7

\* a target and a candidate without entities, of one day, with the values
\* 100 and 82 and a shared code, next to a candidate that gets no point
ScoreAdditiveWitness ==
    /\ call.fn = "loadRelatedTab"
    /\ \E k \in 1..Len(call.transactions) :
          /\ k # call.target
          /\ NoEntities(call.transactions[call.target]) /\ NoEntities(call.transactions[k])
          /\ SameDay100And82(call.transactions[call.target], call.transactions[k])
          /\ call.scores[k] = 8
    /\ \E k \in 1..Len(call.transactions) :
          /\ k # call.target
          /\ NoEntities(call.transactions[k])
          /\ call.scores[k] \in {0, 2}

\* the entities of the texts of the target and of a candidate
SharedPlace(t, u) ==
    \E i \in 1..Len(extractEntitiesFromText(t.entry).places) :
        \E j \in 1..Len(extractEntitiesFromText(u.entry).places) :
            toLowerCase(extractEntitiesFromText(t.entry).places[i])
              = toLowerCase(extractEntitiesFromText(u.entry).places[j])

SharedCommodity(t, u) ==
    \E i \in 1..Len(extractEntitiesFromText(t.entry).commodities) :
        \E j \in 1..Len(extractEntitiesFromText(u.entry).commodities) :
            extractEntitiesFromText(t.entry).commodities[i]
              = extractEntitiesFromText(u.entry).commodities[j]

FuzzyPerson(t, u) ==
    \E i \in 1..Len(extractEntitiesFromText(t.entry).people) :
        \E j \in 1..Len(extractEntitiesFromText(u.entry).people) :
            \/ includes(toLowerCase(extractEntitiesFromText(t.entry).people[i]),
                        toLowerCase(extractEntitiesFromText(u.entry).people[j]))
            \/ includes(toLowerCase(extractEntitiesFromText(u.entry).people[j]),
                        toLowerCase(extractEntitiesFromText(t.entry).people[i]))

\* C20: the three bonuses are given each on its own: 2 for a shared place
\* and 1 for a shared commodity whether or not the target has a person or a
\* person matches, and 3 for a fuzzy match of persons.
BonusesIndependent ==
    call.fn = "loadRelatedTab" =>
        \A k \in 1..Len(call.transactions) :
            k # call.target =>
                call.scores[k]
                  = SumOfFactors(call.transactions[call.target], call.transactions[k])
                      + (IF FuzzyPerson(call.transactions[call.target], call.transactions[k])
                         THEN 3 ELSE 0)
                      + (IF SharedPlace(call.transactions[call.target], call.transactions[k])
                         THEN 2 ELSE 0)
                      + (IF SharedCommodity(call.transactions[call.target], call.transactions[k])
                         THEN 1 ELSE 0)

\* ------------------------------------------------------------------------
\* The export payload
\* ------------------------------------------------------------------------

\* the sum of totalFlorinValue over the first k transactions of a list
RECURSIVE BaseValueSum(_, _)
BaseValueSum(list, k) ==
    IF k = 0 THEN 0 ELSE BaseValueSum(list, k - 1) + list[k].totalFlorinValue

\* the export value v, in units of 1/ExportUnit, is the value w in units
\* of 1/FlorinUnit
SameAmount(v, w) ==
    /\ ~v.nan
    /\ v.v % (CommonUnit \div FlorinUnit) = 0
    /\ (v.v \div (CommonUnit \div FlorinUnit)) * (CommonUnit \div ExportUnit) = w

\* C21: the statistics of the export payload report the sum of the
\* baseValues of the exported transactions as the total and that total
\* divided by their number as the average.
ExportStatistics ==
    call.fn = "exportToJSON" =>
        /\ call.result.success
        /\ SameAmount(call.result.exportData.statistics.totalValue,
                      BaseValueSum(call.transactions, Len(call.transactions)))
        /\ Len(call.transactions) > 0 =>
              /\ call.result.exportData.statistics.averageTransaction.num
                    = call.result.exportData.statistics.totalValue
              /\ call.result.exportData.statistics.averageTransaction.den
                    = Len(call.transactions)

\* the codes of the amounts of a list of transactions
CodesOf(list) ==
    UNION {{list[k].amounts[i].currency : i \in 1..Len(list[k].amounts)} : k \in 1..Len(list)}

\* C22: the metadata of the export payload list exactly the distinct
\* currency codes of the amounts of the exported transactions, each once,
\* and the record count is the number of exported transactions.
ExportMetadata ==
    call.fn = "exportToJSON" =>
        /\ call.result.success
        /\ call.result.exportData.metadata.recordCount = Len(call.transactions)
        /\ {call.result.exportData.metadata.currencies[i] :
               i \in 1..Len(call.result.exportData.metadata.currencies)}
             = CodesOf(call.transactions)
        /\ \A i, j \in 1..Len(call.result.exportData.metadata.currencies) :
              call.result.exportData.metadata.currencies[i]
                = call.result.exportData.metadata.currencies[j] => i = j

\* ------------------------------------------------------------------------
\* The records and their transactions
\* ------------------------------------------------------------------------

\* the fields of a transaction but its id
Fields == {"originalId", "date", "entry", "amounts", "totalFlorinValue", "type", "people",
           "rawXML"}

\* two transactions agree in the fields of a set
AgreeIn(t, u, fields) == \A f \in fields : t[f] = u[f]

\* C23: two records of the same content, parsed in one load at different
\* positions, yield transactions that agree in every field but the id:
\* source id, date, text, amounts, baseValue, category, entities, raw
\* source.
ParseIsPerRecord ==
    \A i, j \in 1..Len(transactions) :
        transactions[i].rawXML = transactions[j].rawXML
            => AgreeIn(transactions[i], transactions[j], Fields)

\* C24: the entities of every parsed transaction hold no token twice, also
\* when a name occurs more than once in the text.
EntitiesDistinct ==
    call.fn = "parseXMLData" =>
        \A k \in 1..Len(call.result) :
            \A i, j \in 1..Len(call.result[k].people) :
                call.result[k].people[i] = call.result[k].people[j] => i = j

\* the capitalized words of a text: an upper-case letter and all the
\* lower-case letters that follow it
CapitalizedAt(s, i, e) ==
    /\ i < e
    /\ IsUpper(s[i])
    /\ \A k \in (i + 1)..e : IsLower(s[k])
    /\ (e < Len(s) => ~IsLower(s[e + 1]))

NameTokens(s) ==
    {SubSeq(s, i, e) : <<i, e>> \in {w \in (1..Len(s)) \X (1..Len(s)) : CapitalizedAt(s, w[1], w[2])}}

StopList == {stopWords[i] : i \in 1..Len(stopWords)}

IncomeWords == {kwRecepimus, kwEinnahmen}
ExpenseWords == {kwFuer, kwDabimus}

HasWord(text, words) == \E w \in words : includes(toLowerCase(text), w)

\* the one amount of a record, in tenths
OneAmount(record) == parseFloat(trim(record.money[1].quantity)).v

\* C25: a record with capitalized name tokens and words of the stop list,
\* one valid amount in f and no keyword yields the amount as baseValue, the
\* name tokens outside the stop list, and none of the stop list, as
\* entities, and the category trade; the category is income only with an
\* income keyword and expense only with an expense keyword and no income
\* keyword.
RecordParsed ==
    call.fn = "parseXMLData" =>
        /\ Len(call.result) = Len(call.xmlDoc)
        /\ \A k \in 1..Len(call.result) :
              /\ call.result[k].totalFlorinValue = OneAmount(call.xmlDoc[k]) * FlorinUnit
              /\ \A token \in NameTokens(call.xmlDoc[k].entry) \ StopList :
                    ArrayIncludes(call.result[k].people, token)
              /\ \A i \in 1..Len(call.result[k].people) :
                    call.result[k].people[i] \notin StopList
              /\ (~HasWord(call.xmlDoc[k].entry, IncomeWords \cup ExpenseWords)
                    => call.result[k].type = "trade")
              /\ (call.result[k].type = "income" => HasWord(call.xmlDoc[k].entry, IncomeWords))
              /\ (call.result[k].type = "expense"
                    => /\ HasWord(call.xmlDoc[k].entry, ExpenseWords)
                       /\ ~HasWord(call.xmlDoc[k].entry, IncomeWords))

\* ------------------------------------------------------------------------
\* The table, its pages and the charts
\* ------------------------------------------------------------------------

\* the entries of the filtered view at the positions of the current page
PageOfView ==
    slice(filteredTransactions, (currentPage - 1) * transactionsPerPage,
          currentPage * transactionsPerPage)

\* a load has completed with a response
Loaded == \E selectedFile \in Files, tz \in TZOffsets : LoadResponse(selectedFile, tz)

\* a filter or the sort order has changed
Filtered ==
    \/ \E text \in SearchTerms : SearchInput(text)
    \/ \E currency \in CurrencyOptions : CurrencyChange(currency)
    \/ \E key \in SortOptions : SortChange(key)

\* the page has changed
PageChanged == PrevPage \/ NextPage

\* C26: after a load, a filter change or a page change the rows of the
\* table are the entries of the filtered view at the positions
\* (currentPage - 1) * 50 to currentPage * 50 - 1, in the order of the view.
TableShowsPage ==
    [][(Loaded \/ Filtered \/ PageChanged) => (tableBody.rows = PageOfView)']_vars

\* the number of the last page of the filtered view, 1 for an empty view
lastPage ==
    IF filteredTransactions = <<>> THEN 1
    ELSE ceilDiv(Len(filteredTransactions), transactionsPerPage)

\* C27: Prev and Next being clicked only while enabled, currentPage stays
\* between 1 and the number of the last page of the filtered view, a view
\* that is not empty never has an empty page displayed, and every
\* applyFilters (a load, a filter change, a sort change) sets currentPage
\* to 1.
PageInRange ==
    /\ [](currentPage \in 1..lastPage)
    /\ [][(PageChanged /\ filteredTransactions' # <<>>) => tableBody.rows' # <<>>]_vars
    /\ [][(Loaded \/ Filtered) => currentPage' = 1]_vars

\* the store holds the collection of the file, as some host parses it
Holds(file) == \E tz \in TZOffsets : transactions = ParsedDocuments[file][tz]

\* the load requested last has completed and the store holds its
\* collection
LatestLoaded == fileSelect # "" /\ pending[fileSelect] = 0 /\ Holds(fileSelect)

\* the response to a request made before the one of the file selected
EarlierResponse ==
    \E selectedFile \in Files \ {fileSelect}, tz \in TZOffsets :
        LoadResponse(selectedFile, tz)

\* C28: of two loads in flight at the same time the one requested last
\* wins.  A response that arrives for the earlier request after the later
\* one has completed leaves the store, the filtered view and the charts
\* with the collection of the file requested last, and the loading
\* indicator is shown as long as a load waits for its response.
LatestLoadWins ==
    /\ [][(LatestLoaded /\ EarlierResponse)
              => UNCHANGED << transactions, filteredTransactions, chartsView >>]_vars
    /\ [](Waiting(pending) > 0 => loading)

\* applyFilters runs to its end on the view and the search text: neither
\* renderTransactions nor a chart update throws
Completes ==
    /\ filteredTransactions = <<>> \/ searchBox = <<>> \/ ~regExpThrows(searchBox)
    /\ ~holdsInvalidDate(filteredTransactions)

\* every chart was last drawn from the filtered view
ChartsShowView == \A chart \in Charts : chartsView[chart] = filteredTransactions

\* C29: when applyFilters has completed, after a load or after a change of
\* a filter, each of the four charts shows the aggregation of the filtered
\* view, also when the file loaded yields no transaction after a load that
\* yielded some.
ChartsFollowView ==
    [][((Loaded \/ Filtered) /\ Completes') => ChartsShowView']_vars

\* ------------------------------------------------------------------------
\* The critical logs
\* ------------------------------------------------------------------------

\* the last n elements of a sequence, all of them when it has fewer
lastOf(seq, n) == IF Len(seq) <= n THEN seq ELSE SubSeq(seq, Len(seq) - n + 1, Len(seq))

\* the calls of warn and error among the calls of the session, as entries
\* with the time of the call
CriticalCalls(calls, first) ==
    LET timed == [k \in 1..Len(calls) |->
                     [level |-> calls[k].level, timestamp |-> first + k - 1,
                      setItemThrows |-> calls[k].setItemThrows]]
    IN  SelectSeq(timed, LAMBDA c : c.level \in {"warn", "error"})

\* the entry of a call
EntryOf(c) == [level |-> c.level, timestamp |-> c.timestamp]

EntriesOf(timedCalls) == [k \in 1..Len(timedCalls) |-> EntryOf(timedCalls[k])]

\* C30: after a sequence of warn and error calls the item holds at most
\* 100 entries: the entries of the most recent warn and error calls, in
\* the order of the calls.
CriticalLogsAreLatest ==
    call.fn = "log" =>
        /\ Len(call.result) <= maxCriticalLogs
        /\ call.result =
              lastOf(call.stored \o EntriesOf(CriticalCalls(call.calls, Len(call.stored) + 1)),
                     maxCriticalLogs)

\* C30 as amended: the item holds at most 100 entries: the entries of the
\* most recent warn and error calls whose level the log level of the
\* session admits and whose write localStorage accepted, in the order of
\* the calls.
CriticalLogsAreLatestAdmitted ==
    call.fn = "log" =>
        LET written == SelectSeq(CriticalCalls(call.calls, Len(call.stored) + 1),
                                 LAMBDA c : /\ c.level = "error" \/ call.logLevel >= 2
                                            /\ ~c.setItemThrows)
        IN  /\ Len(call.result) <= maxCriticalLogs
            /\ call.result = lastOf(call.stored \o EntriesOf(written), maxCriticalLogs)

\* C30 witness: a session that begins with 99 entries stored and logs
\* a warning and an error that are both written: the oldest entry is gone
CriticalLogsAreLatestWitness ==
    /\ call.fn = "log"
    /\ call.stored = earlierLogs
    /\ Len(call.result) = maxCriticalLogs
    /\ call.result[1] # call.stored[1]
    /\ call.result[maxCriticalLogs].level = "error"
    /\ call.result[maxCriticalLogs - 1].level = "warn"
    /\ \E k \in 1..Len(call.calls) : call.calls[k].level = "info"
====
